---- MODULE Spec2Model ----
(***************************************************************************)
(* Model of the robustness validation engine of Python4Finance:            *)
(*   src/python_implementation/validation_framework.py  (PortfolioValidator)*)
(*   src/python_implementation/run_complete_strategy.py                    *)
(*                                   (RealPortfolioValidator, the pipeline)*)
(*                                                                         *)
(* Dates are whole days counted from an arbitrary origin; a timedelta of   *)
(* d days is the integer d.  Floats are exact rationals: Sharpe ratios,    *)
(* returns, drawdowns and rates are integers in hundredths (sharpe -50 is  *)
(* -0.5), percentages and scores are fractions <<numerator, denominator>>. *)
(* The strategy function and the market data are the environment: each     *)
(* invocation picks its outcome nondeterministically.                      *)
(***************************************************************************)
EXTENDS Integers, Sequences, FiniteSets, TLC

VARIABLES
    pc,             \* position of the running program
    pipeline,       \* TRUE inside run_full_validation (testers run in sequence)
    validator,      \* "base" = PortfolioValidator, "real" = RealPortfolioValidator
    now,            \* the value datetime.now() returns
    choices_left,   \* environment outcomes that may still depart from the default
    calls,          \* log of the strategy function's invocations
    error,          \* the exception that left the program, "none" if none
    returned,       \* the functions that have returned to their caller
    wf_cfg,         \* walk_forward_analysis arguments
    wf_end,         \* end_date              (validation_framework.py:121)
    wf_train_start, \* current_train_start   (validation_framework.py:124)
    window_num,     \* window_num            (validation_framework.py:125)
    wf_results,     \* results               (validation_framework.py:120)
    wf_checks,      \* evaluations of the break condition (line 132)
    mt_cfg,         \* multi_timeframe_backtest argument
    mt_frames,      \* timeframes after the default is applied (lines 72-79)
    mt_end,         \* end_date              (validation_framework.py:82)
    mt_i,           \* entries of timeframes.items() already visited
    mt_results,     \* results               (validation_framework.py:81)
    mc_cfg,         \* monte_carlo_parameter_sensitivity arguments
    mc_end,         \* end_date              (validation_framework.py:182)
    mc_start,       \* start_date            (validation_framework.py:183)
    mc_i,           \* i of the for loop     (validation_framework.py:187)
    mc_results,     \* results               (validation_framework.py:181)
    mc_summary,     \* analysis              (validation_framework.py:230)
    mc_failed,      \* "Simulation i failed" lines printed (line 220)
    report,         \* the ValidationReport returned
    fn_call,        \* a function called on its own: its name and arguments
    fn_result,      \* what that call returned or raised
    strategy_function   \* self.strategy_function: what the injected callable can do

commonVars == <<pipeline, validator, now, fn_call, fn_result, strategy_function>>

wfVars == <<wf_cfg, wf_end, wf_train_start, window_num, wf_results, wf_checks>>

mtVars == <<mt_cfg, mt_frames, mt_end, mt_i, mt_results>>

mcVars == <<mc_cfg, mc_end, mc_start, mc_i, mc_results, mc_summary, mc_failed>>

vars == <<pc, choices_left, calls, error, returned, commonVars, wfVars, mtVars, mcVars,
          report>>

----------------------------------------------------------------------------
(* Bounds of the model *)

MaxTrain == 1
MaxTest == 1
MaxStep == 2
MaxTotal == 3
MaxClock == 0
MaxFrames == 2
MaxLookback == 2
MaxSims == 2
MaxChoices == 2
MaxDraws == 4

\* A loop that never reaches its break (step_size_days <= 0) is cut here; for
\* step_size_days >= 1 at most MaxTotal + 1 windows exist, so the cut is not felt.
LoopCap == MaxTotal + 2

Clock == 0..MaxClock

----------------------------------------------------------------------------
(* Floats *)

\* float('nan'): what Series.std() returns for fewer than two observations.
NaN == -1000000

\* a > b on floats: every comparison with nan is False
Gt(a, b) == a # NaN /\ b # NaN /\ a > b

Abs(x) == IF x < 0 THEN -x ELSE x

RECURSIVE GCD(_, _)
GCD(a, b) == IF b = 0 THEN a ELSE GCD(b, a % b)

\* The fraction n/d (d > 0) in lowest terms.
Frac(n, d) ==
    LET g == GCD(Abs(n), d)
    IN  IF g = 0 THEN <<0, 1>> ELSE <<n \div g, d \div g>>

FInt(k) == <<k, 1>>

FAdd(a, b) == Frac(a[1] * b[2] + b[1] * a[2], a[2] * b[2])

FMul(a, b) == Frac(a[1] * b[1], a[2] * b[2])

FLt(a, b) == a[1] * b[2] < b[1] * a[2]

FGe(a, b) == ~FLt(a, b)

\* Python's min(a, b)
FMin(a, b) == IF FLt(b, a) THEN b ELSE a

FSub(a, b) == FAdd(a, <<-b[1], b[2]>>)

\* a / b for b # 0
FDiv(a, b) ==
    IF b[1] > 0 THEN Frac(a[1] * b[2], a[2] * b[1])
    ELSE Frac(-(a[1] * b[2]), a[2] * (-b[1]))

FMax(a, b) == IF FLt(a, b) THEN b ELSE a

RECURSIVE FSum(_)
FSum(s) == IF s = <<>> THEN FInt(0) ELSE FAdd(Head(s), FSum(Tail(s)))

RECURSIVE SumSeq(_)
SumSeq(s) == IF s = <<>> THEN 0 ELSE Head(s) + SumSeq(Tail(s))

\* len([x for x in s if x > 0])
CountPositive(s) == Cardinality({ i \in 1..Len(s) : Gt(s[i], 0) })

----------------------------------------------------------------------------
(* BacktestResult and the environment *)

\* The metrics a backtest measures, in hundredths.
Baseline ==
    [total_return |-> -2, sharpe_ratio |-> -30, max_drawdown |-> -8,
     win_rate |-> 45, annual_return |-> -4, volatility |-> 15]

Profiles ==
    { Baseline,
      [total_return |-> 10, sharpe_ratio |-> 150, max_drawdown |-> -5,
       win_rate |-> 60, annual_return |-> 20, volatility |-> 12] }

EmptyPortfolio == [stocks |-> <<>>]

Portfolios == { EmptyPortfolio, [stocks |-> <<"A", "B">>] }

\* What one invocation of the strategy function does.
StrategyOutcomes ==
    { [kind |-> "portfolio", portfolio |-> p] : p \in Portfolios }
        \cup { [kind |-> "raise"] }

\* What the data of one backtest window yields.
DataOutcomes ==
    { [kind |-> "metrics", m |-> m] : m \in Profiles }
        \cup { [kind |-> "failure"], [kind |-> "raise"] }

\* A callable that may also return None instead of a portfolio.
ReturnsNone == [kind |-> "none"]

AnyCallable == StrategyOutcomes \cup { ReturnsNone }

DefaultStrategy == [kind |-> "portfolio", portfolio |-> EmptyPortfolio]

DefaultData == [kind |-> "metrics", m |-> Baseline]

BacktestResult(period, start_date, end_date, m, stocks) ==
    [period |-> period, start_date |-> start_date, end_date |-> end_date,
     total_return |-> m.total_return, sharpe_ratio |-> m.sharpe_ratio,
     max_drawdown |-> m.max_drawdown, win_rate |-> m.win_rate,
     num_trades |-> Len(stocks), stocks_selected |-> stocks,
     annual_return |-> m.annual_return, volatility |-> m.volatility]

\* Mutant: the failed backtest carries a Sharpe ratio of +0.5.
FailedMetrics_PositiveSharpe ==
    [total_return |-> -5, sharpe_ratio |-> 50, max_drawdown |-> -10,
     win_rate |-> 30, annual_return |-> -5, volatility |-> 20]

\* run_complete_strategy.py:265-277 and 304-316
FailedMetrics ==
    [total_return |-> -5, sharpe_ratio |-> -50, max_drawdown |-> -10,
     win_rate |-> 30, annual_return |-> -5, volatility |-> 20]

FailedBacktest(period, start_date, end_date) ==
    BacktestResult(period, start_date, end_date, FailedMetrics, <<>>)

Returned(r) == [kind |-> "result", result |-> r]

Raised(e) == [kind |-> "raise", error |-> e]

\* PortfolioValidator._run_backtest after the portfolio is known: the returns
\* are randn(days) * 0.01, so the metrics are whatever the draw gives.
BaseBacktest(period, start_date, end_date, portfolio, data) ==
    LET days == end_date - start_date
        m == IF data.kind = "metrics" THEN data.m ELSE Baseline
    IN  IF days < 0 THEN Raised("ValueError")
        ELSE IF days = 0 THEN Raised("ZeroDivisionError")
        ELSE Returned(BacktestResult(period, start_date, end_date,
                [m EXCEPT !.win_rate = 0,
                          !.sharpe_ratio = IF days = 1 THEN NaN ELSE @,
                          !.volatility = IF days = 1 THEN NaN ELSE @],
                portfolio.stocks))

\* Whether the portfolio takes the failed-backtest exit,
\* run_complete_strategy.py:263
NothingSelected(portfolio) == Len(portfolio.stocks) = 0

\* RealPortfolioValidator._run_backtest after the portfolio is known.
RealBacktest(period, start_date, end_date, portfolio, data) ==
    IF NothingSelected(portfolio)
    THEN Returned(FailedBacktest(period, start_date, end_date))
    ELSE CASE data.kind = "metrics" ->
                Returned(BacktestResult(period, start_date, end_date,
                                        data.m, portfolio.stocks))
           [] data.kind = "failure" ->
                Returned(FailedBacktest(period, start_date, end_date))
           [] data.kind = "raise" -> Raised("BacktestError")

Backtest(period, start_date, end_date, portfolio, data) ==
    IF validator = "real"
    THEN RealBacktest(period, start_date, end_date, portfolio, data)
    ELSE BaseBacktest(period, start_date, end_date, portfolio, data)

\* _run_backtest on the portfolio None: portfolio.get raises AttributeError,
\* validation_framework.py:298 after the metrics in the base class,
\* run_complete_strategy.py:263 in the real one.
NoneBacktest(start_date, end_date) ==
    LET days == end_date - start_date
    IN  IF validator = "real" THEN Raised("AttributeError")
        ELSE IF days < 0 THEN Raised("ValueError")
        ELSE IF days = 0 THEN Raised("ZeroDivisionError")
        ELSE Raised("AttributeError")

\* _run_backtest once the strategy function has answered s
BacktestOf(period, start_date, end_date, s, data) ==
    IF s.kind = "raise" THEN Raised("StrategyError")
    ELSE IF s.kind = "none" THEN NoneBacktest(start_date, end_date)
    ELSE Backtest(period, start_date, end_date, s.portfolio, data)

\* _run_backtest without predefined_portfolio: the strategy function's
\* answer, then the backtest of that portfolio.
SelectAndBacktest(period, start_date, end_date, env) ==
    BacktestOf(period, start_date, end_date, env.strategy, env.data)

\* validation_framework.py:267-274, run_complete_strategy.py:255-261:
\* predefined_portfolio is None, so _run_backtest asks the strategy function
\* itself, over the window it backtests
Reselected(portfolio) == portfolio.kind = "none"

\* What the second invocation can answer; nothing when there is none.
SecondAnswers(portfolio) ==
    IF Reselected(portfolio) THEN strategy_function ELSE { portfolio }

\* _run_backtest with predefined_portfolio = the answer of an earlier
\* invocation; again is the answer of the invocation inside _run_backtest
PredefinedBacktest(period, start_date, end_date, portfolio, again, data) ==
    BacktestOf(period, start_date, end_date,
               IF Reselected(portfolio) THEN again ELSE portfolio, data)

StrategyAnswer(s) ==
    IF s.kind = "raise" THEN "raise"
    ELSE IF s.kind = "none" THEN "none"
    ELSE IF s.portfolio.stocks = <<>> THEN "empty" ELSE "portfolio"

\* One entry of the log of strategy invocations.
Call(by, start_date, end_date, params, s) ==
    [by |-> by, start_date |-> start_date, end_date |-> end_date,
     params |-> params, answer |-> StrategyAnswer(s)]

\* The invocations of one pass of a tester that hands the portfolio on: the
\* one of the tester, and the one inside _run_backtest (without params) when
\* the portfolio is None.
Invocations(by, start_date, end_date, params, portfolio, test_start, test_end, again) ==
    << Call(by, start_date, end_date, params, portfolio) >>
        \o IF Reselected(portfolio)
           THEN << Call(by, test_start, test_end, <<>>, again) >>
           ELSE << >>

\* Where the program goes when a tester returns.
AfterTester(next) == IF pipeline THEN next ELSE "done"

----------------------------------------------------------------------------
(* Parameter draws, validation_framework.py:188-194 *)

\* Range bounds and drawn values are numbers in hundredths: the int 8 is 800,
\* the float 0.3 is 30.  A value is an integer when it is a multiple of 100.
IsInteger(v) == v % 100 = 0

\* np.random.randint(low, high): the integers v with low <= v < high
RandInt(low, high) ==
    { 100 * k : k \in (-((-low) \div 100))..((high - 1) \div 100) }

\* np.random.uniform(low, high), on the grid of hundredths
Uniform(low, high) == IF low <= high THEN low..high ELSE high..low

\* Mutant: the upper bound is passed to randint as it is, line 191 without + 1.
RangeValues_HalfOpen(r) ==
    IF r.int THEN RandInt(r.min, r.max) ELSE Uniform(r.min, r.max)

\* lines 190-194; r.int is isinstance(min_val, int) and isinstance(max_val, int)
RangeValues(r) ==
    IF r.int THEN RandInt(r.min, r.max + 100) ELSE Uniform(r.min, r.max)

Param(name, v) == [name |-> name, value |-> v]

RECURSIVE DrawSpace(_)
DrawSpace(ranges) ==
    IF ranges = <<>> THEN { <<>> }
    ELSE { <<Param(Head(ranges).name, v)>> \o d :
             v \in RangeValues(Head(ranges)), d \in DrawSpace(Tail(ranges)) }

RECURSIVE DrawCount(_)
DrawCount(ranges) ==
    IF ranges = <<>> THEN 1
    ELSE Cardinality(RangeValues(Head(ranges))) * DrawCount(Tail(ranges))

LowDraw(ranges) ==
    [i \in 1..Len(ranges) |-> Param(ranges[i].name, ranges[i].min)]

HighDraw(ranges) ==
    [i \in 1..Len(ranges) |-> Param(ranges[i].name, ranges[i].max)]

\* The draws explored: all of them, or the two corner draws of a large space.
Draws(ranges) ==
    IF DrawCount(ranges) <= MaxDraws
    THEN DrawSpace(ranges)
    ELSE { LowDraw(ranges), HighDraw(ranges) }

\* randint raises ValueError on an empty interval
BadRange(ranges) ==
    \E i \in 1..Len(ranges) : ranges[i].int /\ ranges[i].min > ranges[i].max

----------------------------------------------------------------------------
(* The environment's choices *)

DefaultEnv(ranges) ==
    [strategy |-> DefaultStrategy, data |-> DefaultData,
     params |-> LowDraw(ranges)]

EnvChoices(ranges) ==
    IF choices_left > 0
    THEN [strategy : strategy_function, data : DataOutcomes, params : Draws(ranges)]
    ELSE { DefaultEnv(ranges) }

Spend(env, ranges) ==
    IF env = DefaultEnv(ranges) THEN choices_left ELSE choices_left - 1

NoRanges == <<>>

----------------------------------------------------------------------------
(* multi_timeframe_backtest, validation_framework.py:59-97 *)

Frame(name, days) == [name |-> name, days |-> days]

\* lines 73-79
DefaultTimeframes ==
    << Frame("6mo", 180), Frame("1yr", 365), Frame("2yr", 730),
       Frame("5yr", 1825), Frame("10yr", 3650) >>

\* lines 72-82
MTStart ==
    /\ pc = "mt_start"
    /\ mt_frames' = IF mt_cfg.given THEN mt_cfg.timeframes ELSE DefaultTimeframes
    /\ mt_end' = now
    /\ mt_i' = 0
    /\ mt_results' = <<>>
    /\ pc' = "mt_loop"
    /\ UNCHANGED <<returned, choices_left, calls, error, commonVars, wfVars, mcVars,
                   report, mt_cfg>>

\* Mutant: the window has no lookback.
MTFrameStart_NoLookback(days) == mt_end

\* line 85
MTFrameStart(days) == mt_end - days

\* lines 84-95: one entry of timeframes.items()
MTFrame ==
    /\ pc = "mt_loop"
    /\ mt_i < Len(mt_frames)
    /\ LET name == mt_frames[mt_i + 1].name
           start_date == MTFrameStart(mt_frames[mt_i + 1].days)
       IN  \E env \in EnvChoices(NoRanges) :
             LET out == SelectAndBacktest(name, start_date, mt_end, env)
             IN  /\ choices_left' = Spend(env, NoRanges)
                 /\ calls' = Append(calls,
                        Call("mt", start_date, mt_end, <<>>, env.strategy))
                 /\ IF out.kind = "raise"
                    THEN /\ pc' = "raised"
                         /\ error' = out.error
                         /\ UNCHANGED <<mt_i, mt_results>>
                    ELSE /\ mt_results' = Append(mt_results, out.result)
                         /\ mt_i' = mt_i + 1
                         /\ UNCHANGED <<pc, error>>
    /\ UNCHANGED <<returned, commonVars, wfVars, mcVars, report, mt_cfg,
                   mt_frames, mt_end>>

\* line 97
MTReturn ==
    /\ pc = "mt_loop"
    /\ mt_i = Len(mt_frames)
    /\ pc' = AfterTester("wf_start")
    /\ returned' = returned \cup {"mt"}
    /\ UNCHANGED <<choices_left, calls, error, commonVars, wfVars, mtVars,
                   mcVars, report>>

----------------------------------------------------------------------------
(* walk_forward_analysis, validation_framework.py:99-159 *)

\* line 128
WFTrainEnd == wf_train_start + wf_cfg.train

\* line 129
WFTestEnd == WFTrainEnd + wf_cfg.test

\* Mutant: the windows are numbered from zero.
WFPeriod_FromZero(n) == <<"WF_Window_", n - 1>>

\* line 149
WFPeriod(n) == <<"WF_Window_", n>>

\* lines 120-125
WFStart ==
    /\ pc = "wf_start"
    /\ wf_end' = now
    /\ wf_train_start' = now - wf_cfg.total
    /\ window_num' = 1
    /\ wf_results' = <<>>
    /\ wf_checks' = 0
    /\ pc' = "wf_loop"
    /\ UNCHANGED <<returned, choices_left, calls, error, commonVars, mtVars, mcVars,
                   report, wf_cfg>>

\* Mutants of the break condition: the window ending today is refused; the
\* test window is left out of the condition.
WFStop_Inclusive == WFTestEnd >= wf_end

WFStop_TrainOnly == WFTrainEnd > wf_end

\* line 132
WFStop == WFTestEnd > wf_end

\* lines 127-133 and 159: the break, and the return of the results
WFBreak ==
    /\ pc = "wf_loop"
    /\ WFStop
    /\ wf_checks' = wf_checks + 1
    /\ pc' = AfterTester("mc_start")
    /\ returned' = returned \cup {"wf"}
    /\ UNCHANGED <<choices_left, calls, error, commonVars, mtVars, mcVars,
                   report, wf_cfg, wf_end, wf_train_start, window_num,
                   wf_results>>

\* Mutant: the training window is not moved.
WFStep_Stay == wf_train_start

\* line 156
WFStep == wf_train_start + wf_cfg.step

\* Mutant: the selected portfolio is backtested from the start of its
\* training window.
WFTestStart_InSample == wf_train_start

\* lines 146-147: where the backtest of the selected portfolio starts
WFTestStart == WFTrainEnd

\* lines 127-157: one pass of the loop body
WFWindow ==
    /\ pc = "wf_loop"
    /\ ~WFStop
    /\ Len(wf_results) < LoopCap
    /\ wf_checks' = wf_checks + 1
    /\ \E env \in EnvChoices(NoRanges) :
       \E again \in SecondAnswers(env.strategy) :
         LET out == IF env.strategy.kind = "raise" THEN Raised("StrategyError")
                    ELSE PredefinedBacktest(WFPeriod(window_num), WFTestStart,
                                            WFTestEnd, env.strategy, again, env.data)
         IN  /\ choices_left' = Spend(env, NoRanges)
             /\ calls' = calls \o Invocations("wf", wf_train_start, WFTrainEnd, <<>>,
                                               env.strategy, WFTestStart, WFTestEnd,
                                               again)
             /\ IF out.kind = "raise"
                THEN /\ pc' = "raised"
                     /\ error' = out.error
                     /\ UNCHANGED <<wf_train_start, window_num, wf_results>>
                ELSE /\ wf_results' = Append(wf_results, out.result)
                     /\ wf_train_start' = WFStep
                     /\ window_num' = window_num + 1
                     /\ UNCHANGED <<pc, error>>
    /\ UNCHANGED <<returned, commonVars, mtVars, mcVars, report, wf_cfg, wf_end>>

----------------------------------------------------------------------------
(* monte_carlo_parameter_sensitivity, validation_framework.py:161-246 *)

\* line 207
MCPeriod(n) == <<"MC_", n>>

NoSummary == [status |-> "none"]

\* lines 181-185
MCStart ==
    /\ pc = "mc_start"
    /\ mc_end' = now
    /\ mc_start' = now - mc_cfg.test_days
    /\ mc_i' = 0
    /\ mc_results' = <<>>
    /\ mc_summary' = NoSummary
    /\ mc_failed' = 0
    /\ pc' = "mc_loop"
    /\ UNCHANGED <<returned, choices_left, calls, error, commonVars, mtVars, wfVars,
                   report, mc_cfg>>

\* lines 211-217
MCSample(n, params, r) ==
    [simulation |-> n, params |-> params, sharpe |-> r.sharpe_ratio,
     return |-> r.total_return, max_dd |-> r.max_drawdown]

\* Mutant: the failed simulation is still recorded, as a failed backtest.
MCAfterRaise_Recorded(results) ==
    Append(results, [simulation |-> Len(results) + 1, params |-> <<>>,
                     sharpe |-> -50, return |-> -5, max_dd |-> -10])

\* What the except clause of lines 219-221 does with a failed simulation.
MCAfterRaise(results) == results

\* lines 187-224: one simulation
MCSim ==
    /\ pc = "mc_loop"
    /\ mc_i < mc_cfg.num_simulations
    /\ IF BadRange(mc_cfg.ranges)
       THEN /\ pc' = "raised"
            /\ error' = "ValueError"
            /\ UNCHANGED <<choices_left, calls, mc_i, mc_results, mc_failed>>
       ELSE \E env \in EnvChoices(mc_cfg.ranges) :
            \E again \in SecondAnswers(env.strategy) :
              LET out == IF env.strategy.kind = "raise" THEN Raised("StrategyError")
                         ELSE PredefinedBacktest(MCPeriod(mc_i + 1), mc_start, mc_end,
                                                 env.strategy, again, env.data)
              IN  /\ choices_left' = Spend(env, mc_cfg.ranges)
                  /\ calls' = calls \o Invocations("mc", mc_start, mc_end, env.params,
                                                    env.strategy, mc_start, mc_end,
                                                    again)
                  /\ mc_results' =
                         IF out.kind = "raise"
                         THEN MCAfterRaise(mc_results)
                         ELSE Append(mc_results,
                                     MCSample(mc_i + 1, env.params, out.result))
                  /\ mc_failed' =
                         IF out.kind = "raise" THEN mc_failed + 1 ELSE mc_failed
                  /\ mc_i' = mc_i + 1
                  /\ UNCHANGED <<pc, error>>
    /\ UNCHANGED <<returned, commonVars, mtVars, wfVars, report, mc_cfg, mc_end,
                   mc_start, mc_summary>>

\* count / len(results) * 100, lines 232-233
Percent(count, n) == FMul(Frac(count, n), FInt(100))

\* lines 227-244
Analysis(results) ==
    LET sharpes == [i \in 1..Len(results) |-> results[i].sharpe]
        returns == [i \in 1..Len(results) |-> results[i].return]
    IN  [status |-> "analysis",
         num_simulations |-> Len(results),
         profitable_pct |-> Percent(CountPositive(returns), Len(results)),
         positive_sharpe_pct |-> Percent(CountPositive(sharpes), Len(sharpes)),
         all_results |-> results]

\* Mutant: with no sample the percentages are guarded and come out as 0.
Summary_SilentZeros(results) == Returned(Analysis(results))

\* lines 230-233: len(...) / len(results) divides by zero when no simulation
\* was recorded
Summary(results) ==
    IF Len(results) = 0
    THEN Raised("ZeroDivisionError")
    ELSE Returned(Analysis(results))

\* lines 226-246: the statistics, and the return
MCAnalyze ==
    /\ pc = "mc_loop"
    /\ mc_i >= mc_cfg.num_simulations
    /\ LET out == Summary(mc_results)
       IN  IF out.kind = "raise"
           THEN /\ pc' = "raised"
                /\ error' = out.error
                /\ UNCHANGED <<mc_summary, returned>>
           ELSE /\ mc_summary' = out.result
                /\ pc' = AfterTester("report")
                /\ returned' = returned \cup {"mc"}
                /\ UNCHANGED error
    /\ UNCHANGED <<choices_left, calls, commonVars, mtVars, wfVars, report,
                   mc_cfg, mc_end, mc_start, mc_i, mc_results, mc_failed>>

----------------------------------------------------------------------------
(* generate_validation_report, validation_framework.py:330-404 *)

FNaN == <<NaN, 1>>

\* Mutant: the first Sharpe ratio stands for the mean.
MeanSharpe_FirstOnly(sharpes) ==
    IF sharpes[1] = NaN THEN FNaN ELSE Frac(sharpes[1], 100)

\* np.mean of Sharpe ratios given in hundredths, line 374
MeanSharpe(sharpes) ==
    IF \E i \in 1..Len(sharpes) : sharpes[i] = NaN
    THEN FNaN
    ELSE Frac(SumSeq(sharpes), 100 * Len(sharpes))

\* line 375
SharpeScore(avg_sharpe) ==
    IF avg_sharpe = FNaN THEN FNaN
    ELSE FMin(FMul(avg_sharpe, FInt(50)), FInt(50))

\* lines 348, 358, 366
HalfOf(pct) == FMul(pct, Frac(1, 2))

\* lines 380-385
Robustness(mt_score, wf_score, mc_score, sharpe_score) ==
    IF sharpe_score = FNaN THEN FNaN
    ELSE FAdd(FAdd(FMul(mt_score, Frac(25, 100)), FMul(wf_score, Frac(35, 100))),
              FAdd(FMul(mc_score, Frac(25, 100)), FMul(sharpe_score, Frac(15, 100))))

ScoreGe(score, k) == score # FNaN /\ FGe(score, FInt(k))

\* Mutant: the thresholds are exclusive.
Recommendation_Exclusive(score) ==
    IF score # FNaN /\ FLt(FInt(70), score) THEN "STRONG"
    ELSE IF score # FNaN /\ FLt(FInt(50), score) THEN "MODERATE"
    ELSE IF score # FNaN /\ FLt(FInt(30), score) THEN "WEAK"
    ELSE "FAIL"

\* lines 388-395
Recommendation(score) ==
    IF ScoreGe(score, 70) THEN "STRONG"
    ELSE IF ScoreGe(score, 50) THEN "MODERATE"
    ELSE IF ScoreGe(score, 30) THEN "WEAK"
    ELSE "FAIL"

\* format(pct, '.0f') of a percentage >= 0: round half to even
RoundPct(pct) ==
    LET q == pct[1] \div pct[2]
        r == pct[1] % pct[2]
    IN  IF 2 * r < pct[2] THEN q
        ELSE IF 2 * r > pct[2] THEN q + 1
        ELSE IF q % 2 = 0 THEN q ELSE q + 1

Warning(about, pct) == [about |-> about, shown |-> RoundPct(pct)]

\* Mutant: the three tests form one if / elif chain.
Warnings_FirstOnly(mt_pct, wf_pct, mc_pct) ==
    IF FLt(mt_pct, FInt(60)) THEN << Warning("multi_timeframe", mt_pct) >>
    ELSE IF FLt(wf_pct, FInt(50)) THEN << Warning("walk_forward", wf_pct) >>
    ELSE IF FLt(mc_pct, FInt(70)) THEN << Warning("monte_carlo", mc_pct) >>
    ELSE <<>>

\* lines 350-351, 360-361, 368-369
Warnings(mt_pct, wf_pct, mc_pct) ==
    (IF FLt(mt_pct, FInt(60)) THEN << Warning("multi_timeframe", mt_pct) >> ELSE <<>>)
        \o (IF FLt(wf_pct, FInt(50)) THEN << Warning("walk_forward", wf_pct) >> ELSE <<>>)
        \o (IF FLt(mc_pct, FInt(70)) THEN << Warning("monte_carlo", mc_pct) >> ELSE <<>>)

Sharpes(results) == [i \in 1..Len(results) |-> results[i].sharpe_ratio]

\* lines 342-404
ValidationReport(mt, wf, mc) ==
    IF Len(mt) = 0 \/ Len(wf) = 0
    THEN Raised("ZeroDivisionError")
    ELSE LET mt_sharpes == Sharpes(mt)
             wf_sharpes == Sharpes(wf)
             mt_positive_pct == Percent(CountPositive(mt_sharpes), Len(mt_sharpes))
             wf_positive_pct == Percent(CountPositive(wf_sharpes), Len(wf_sharpes))
             mc_positive_pct == mc.positive_sharpe_pct
             sharpe_score == SharpeScore(MeanSharpe(mt_sharpes \o wf_sharpes))
             robustness_score ==
                 Robustness(HalfOf(mt_positive_pct), HalfOf(wf_positive_pct),
                            HalfOf(mc_positive_pct), sharpe_score)
         IN  Returned([status |-> "report",
                       multi_timeframe_results |-> mt,
                       walk_forward_results |-> wf,
                       monte_carlo_results |-> mc,
                       robustness_score |-> robustness_score,
                       recommendation |-> Recommendation(robustness_score),
                       warnings |-> Warnings(mt_positive_pct, wf_positive_pct,
                                             mc_positive_pct)])

NoReport == [status |-> "none"]

GenerateReport ==
    /\ pc = "report"
    /\ LET out == ValidationReport(mt_results, wf_results, mc_summary)
       IN  IF out.kind = "raise"
           THEN /\ pc' = "raised"
                /\ error' = out.error
                /\ UNCHANGED <<report, returned>>
           ELSE /\ report' = out.result
                /\ pc' = "done"
                /\ returned' = returned \cup {"report"}
                /\ UNCHANGED error
    /\ UNCHANGED <<choices_left, calls, commonVars, mtVars, wfVars, mcVars>>

----------------------------------------------------------------------------
(* BacktestEngine, module_6_backtest_engine.py                              *)
(*                                                                         *)
(* weights is a dict in insertion order: a sequence of [ticker, weight].    *)
(* stock_data maps a ticker to "missing" (no entry), "no_close" (a frame    *)
(* without a Close column) or a frame whose Close column is a function from *)
(* the dates of its index to a price or NaN.  Prices, weights and returns   *)
(* are exact fractions.  A Sharpe ratio, a volatility and an annualised     *)
(* return are irrational: each is a record of the exact quantities it is    *)
(* computed from, or says that the float is 0.0 or NaN.                     *)

RECURSIVE SortedSeq(_)
SortedSeq(S) ==
    IF S = {} THEN <<>>
    ELSE LET m == CHOOSE x \in S : \A y \in S : x <= y
         IN  <<m>> \o SortedSeq(S \ {m})

\* line 49: ticker in stock_data and 'Close' in stock_data[ticker].columns
HasClose(stock_data, t) == stock_data[t].kind = "frame"

\* lines 48-50: the columns of prices, in the order of weights
Columns(weights, stock_data) ==
    LET tickers == [i \in 1..Len(weights) |-> weights[i].ticker]
    IN  SelectSeq(tickers, LAMBDA t : HasClose(stock_data, t))

\* line 50: a column set on a frame without rows gives the frame its index;
\* on a frame with rows it is aligned to the frame's index
RECURSIVE FrameIndex(_, _)
FrameIndex(cols, stock_data) ==
    IF cols = <<>> THEN {}
    ELSE LET own == DOMAIN stock_data[Head(cols)].close
         IN  IF own # {} THEN own ELSE FrameIndex(Tail(cols), stock_data)

\* the value of column t in the row of date d: NaN where t has no such date
Cell(stock_data, t, d) ==
    LET close == stock_data[t].close
    IN  IF d \in DOMAIN close THEN close[d] ELSE NaN

\* line 53: the rows within [start_date, end_date], oldest first
WindowRows(index, start_date, end_date) ==
    SortedSeq({ d \in index : start_date <= d /\ d <= end_date })

CountValid(stock_data, t, rows) ==
    Cardinality({ i \in 1..Len(rows) : Cell(stock_data, t, rows[i]) # NaN })

\* Mutant: a column survives with more than half of its rows.
Covered_Half(stock_data, t, rows) ==
    2 * CountValid(stock_data, t, rows) >= Len(rows)

\* line 62: dropna(axis=1, thresh=len(prices) * 0.7) keeps a column with at
\* least thresh values that are not NaN
Covered(stock_data, t, rows) ==
    10 * CountValid(stock_data, t, rows) >= 7 * Len(rows)

\* line 65, ffill: the last value at or before row i that is not NaN
RECURSIVE Filled(_, _, _, _)
Filled(stock_data, t, rows, i) ==
    IF i = 0 THEN NaN
    ELSE IF Cell(stock_data, t, rows[i]) # NaN THEN Cell(stock_data, t, rows[i])
    ELSE Filled(stock_data, t, rows, i - 1)

\* line 65, dropna: the rows where every column has a value after the fill
CleanRows(stock_data, cols, rows) ==
    SelectSeq([i \in 1..Len(rows) |-> i],
              LAMBDA i : \A k \in 1..Len(cols) :
                             Filled(stock_data, cols[k], rows, i) # NaN)

WeightOf(weights, t) ==
    LET i == CHOOSE i \in 1..Len(weights) : weights[i].ticker = t
    IN  weights[i].weight

\* line 75
TotalWeight(weights, cols) ==
    FSum([k \in 1..Len(cols) |-> FInt(WeightOf(weights, cols[k]))])

\* Mutant: the total is never tested.
NoValidWeights_Unchecked(weights, cols) == FALSE

\* line 77: total_weight == 0
NoValidWeights(weights, cols) == TotalWeight(weights, cols) = FInt(0)

\* Mutant: the weights are used as given.
NormalizedWeights_AsGiven(weights, cols) ==
    [k \in 1..Len(cols) |-> FInt(WeightOf(weights, cols[k]))]

\* line 84
NormalizedWeights(weights, cols) ==
    [k \in 1..Len(cols) |->
        FDiv(FInt(WeightOf(weights, cols[k])), TotalWeight(weights, cols))]

\* lines 87-91: pct_change().dropna(), then the weighted sum of each row
PortfolioReturns(stock_data, cols, rows, clean, w) ==
    [j \in 1..(Len(clean) - 1) |->
        FSum([k \in 1..Len(cols) |->
            LET before == FInt(Filled(stock_data, cols[k], rows, clean[j]))
                after == FInt(Filled(stock_data, cols[k], rows, clean[j + 1]))
            IN  FMul(w[k], FDiv(FSub(after, before), before))])]

\* line 94: (1 + portfolio_returns).cumprod()
RECURSIVE CumProd(_, _)
CumProd(returns, j) ==
    IF j = 0 THEN FInt(1)
    ELSE FMul(CumProd(returns, j - 1), FAdd(FInt(1), returns[j]))

\* cummax()
RECURSIVE CumMax(_, _)
CumMax(cumulative, j) ==
    IF j = 1 THEN cumulative[1]
    ELSE FMax(CumMax(cumulative, j - 1), cumulative[j])

\* Series.min(): NaN entries are skipped, NaN when nothing is left
SeriesMin(s) ==
    LET valid == { i \in DOMAIN s : s[i] # FNaN }
    IN  IF valid = {} THEN FNaN
        ELSE s[CHOOSE i \in valid : \A k \in valid : FGe(s[k], s[i])]

\* Mutant: the ratio to the peak, without subtracting the peak.
BacktestEngine_calculate_max_drawdown_Ratio(cumulative) ==
    SeriesMin([j \in 1..Len(cumulative) |->
        LET running_max == CumMax(cumulative, j)
        IN  IF running_max = FInt(0) THEN FNaN
            ELSE FDiv(cumulative[j], running_max)])

\* BacktestEngine._calculate_max_drawdown, lines 145-149; 0 / 0 is NaN
BacktestEngine_calculate_max_drawdown(cumulative) ==
    SeriesMin([j \in 1..Len(cumulative) |->
        LET running_max == CumMax(cumulative, j)
        IN  IF running_max = FInt(0) THEN FNaN
            ELSE FDiv(FSub(cumulative[j], running_max), running_max)])

\* Series.mean() of a series that is not empty
Mean(returns) == FDiv(FSum(returns), FInt(Len(returns)))

\* Series.std() squared, of two or more observations (ddof = 1)
Variance(returns) ==
    FDiv(FSum([j \in 1..Len(returns) |->
                 FMul(FSub(returns[j], Mean(returns)),
                      FSub(returns[j], Mean(returns)))]),
         FInt(Len(returns) - 1))

\* returns.std() == 0: std() of fewer than two observations is NaN, and a
\* comparison with NaN is False
StdIsZero(returns) == Len(returns) >= 2 /\ Variance(returns) = FInt(0)

\* risk_free_rate / 252 with risk_free_rate = 0.02
DailyRiskFree == Frac(2, 25200)

\* sqrt(252) * excess_returns.mean() / returns.std(), the quotient left
\* unevaluated; NaN when std() is NaN
AnnualizedSharpe(returns) ==
    IF Len(returns) < 2 THEN [kind |-> "nan"]
    ELSE [kind |-> "sqrt252_ratio",
          excess_mean |-> FSub(Mean(returns), DailyRiskFree),
          variance |-> Variance(returns)]

\* Mutant: the guard is left out.
BacktestEngine_calculate_sharpe_Unguarded(returns) == AnnualizedSharpe(returns)

\* BacktestEngine._calculate_sharpe, lines 137-143
BacktestEngine_calculate_sharpe(returns) ==
    IF Len(returns) = 0 \/ StdIsZero(returns) THEN [kind |-> "zero"]
    ELSE AnnualizedSharpe(returns)

\* portfolio_returns.std() * np.sqrt(252), line 103, the root left
\* unevaluated
Volatility(returns) ==
    IF Len(returns) < 2 THEN [kind |-> "nan"]
    ELSE [kind |-> "sqrt", square |-> FMul(FInt(252), Variance(returns))]

\* BacktestEngine._annualize_return, lines 130-135: the power is left
\* unevaluated
BacktestEngine_annualize_return(total_return, num_days) ==
    IF num_days <= 0 THEN [kind |-> "zero"]
    ELSE [kind |-> "power", base |-> FAdd(FInt(1), total_return),
          exponent |-> Frac(252, num_days)]

\* line 109
WinRate(returns) ==
    Frac(Cardinality({ j \in 1..Len(returns) : FLt(FInt(0), returns[j]) }),
         Len(returns))

\* PortfolioValidator._calculate_sharpe, validation_framework.py:316-321: the
\* only guard is returns.std() == 0
PortfolioValidator_calculate_sharpe(returns) ==
    IF StdIsZero(returns) THEN [kind |-> "zero"] ELSE AnnualizedSharpe(returns)

\* PortfolioValidator._calculate_max_drawdown, validation_framework.py:323-328
PortfolioValidator_calculate_max_drawdown(returns) ==
    BacktestEngine_calculate_max_drawdown(
        [j \in 1..Len(returns) |-> CumProd(returns, j)])

\* validation_framework.py:282-288: what PortfolioValidator._run_backtest
\* measures on the returns of its window
BaseMetrics(returns, days) ==
    [total_return |-> FSub(CumProd(returns, Len(returns)), FInt(1)),
     sharpe_ratio |-> PortfolioValidator_calculate_sharpe(returns),
     max_drawdown |-> PortfolioValidator_calculate_max_drawdown(returns),
     win_rate |-> 0,
     annual_return |-> [kind |-> "power",
                        base |-> CumProd(returns, Len(returns)),
                        exponent |-> Frac(365, days)],
     volatility |-> Volatility(returns)]

EngineFailure(message) ==
    Returned([success |-> FALSE, message |-> message])

\* BacktestEngine.backtest_portfolio, lines 45-128
backtest_portfolio(weights, stock_data, start_date, end_date) ==
    LET all == Columns(weights, stock_data)
        rows == WindowRows(FrameIndex(all, stock_data), start_date, end_date)
        cols == SelectSeq(all, LAMBDA t : Covered(stock_data, t, rows))
        clean == CleanRows(stock_data, cols, rows)
        w == NormalizedWeights(weights, cols)
        returns == PortfolioReturns(stock_data, cols, rows, clean, w)
        cumulative == [j \in 1..Len(returns) |-> CumProd(returns, j)]
        total_return == FSub(cumulative[Len(cumulative)], FInt(1))
    IN  IF Len(rows) = 0 THEN EngineFailure("No data in specified date range")
        ELSE IF Len(cols) = 0 THEN EngineFailure("Insufficient data after cleaning")
        ELSE IF NoValidWeights(weights, cols)
        THEN EngineFailure("No valid weights")
        ELSE IF Len(returns) = 0 THEN Raised("IndexError")
        ELSE Returned(
            [success |-> TRUE,
             total_return |-> total_return,
             annual_return |-> BacktestEngine_annualize_return(total_return,
                                                               Len(returns)),
             volatility |-> Volatility(returns),
             sharpe_ratio |-> BacktestEngine_calculate_sharpe(returns),
             max_drawdown |-> BacktestEngine_calculate_max_drawdown(cumulative),
             win_rate |-> WinRate(returns),
             num_days |-> Len(returns),
             weights_used |-> [k \in 1..Len(cols) |->
                                  [ticker |-> cols[k], weight |-> w[k]]]])

----------------------------------------------------------------------------
(* Configurations *)

\* run_full_validation, run_complete_strategy.py:325-350
RunTimeframes == << Frame("6mo", 180), Frame("1yr", 365), Frame("2yr", 730) >>

RunMTConfig == [given |-> TRUE, timeframes |-> RunTimeframes]

RunTrainDays == 365
RunTestDays == 90
RunStepDays == 90
RunHistoryDays == 730

RunWFConfig ==
    [train |-> RunTrainDays, test |-> RunTestDays, step |-> RunStepDays,
     total |-> RunHistoryDays]

Range(name, min, max, int) == [name |-> name, min |-> min, max |-> max, int |-> int]

RunSimulations == 30
RunMCTestDays == 365

RunMCConfig ==
    [ranges |-> << Range("rsi_threshold", 6000, 8000, TRUE),
                   Range("target_stocks", 800, 1200, TRUE),
                   Range("correlation_threshold", 30, 50, FALSE) >>,
     num_simulations |-> RunSimulations,
     test_days |-> RunMCTestDays]

TFNames == [i \in 1..Len(DefaultTimeframes) |-> DefaultTimeframes[i].name]

SmallTimeframes ==
    UNION { { [i \in 1..k |-> Frame(TFNames[i], d[i])] :
                d \in [1..k -> 0..MaxLookback] } : k \in 0..MaxFrames }

MTConfigs ==
    { [given |-> TRUE, timeframes |-> t] : t \in SmallTimeframes \cup {RunTimeframes} }
        \cup { [given |-> FALSE, timeframes |-> <<>>] }

WFConfigs ==
    [train : 0..MaxTrain, test : 0..MaxTest, step : 0..MaxStep, total : 0..MaxTotal]
        \cup { RunWFConfig }

SmallRanges ==
    << Range("target_stocks", 800, 900, TRUE),
       Range("correlation_threshold", 30, 31, FALSE) >>

MCConfigs ==
    [ranges : { SubSeq(SmallRanges, 1, k) : k \in 0..Len(SmallRanges) },
     num_simulations : 0..MaxSims,
     test_days : 0..MaxTest]

NoCall == [fn |-> "none"]

IdleLoops ==
    /\ calls = <<>>
    /\ error = "none"
    /\ returned = {}
    /\ report = NoReport
    /\ mt_frames = <<>> /\ mt_end = 0 /\ mt_i = 0 /\ mt_results = <<>>
    /\ wf_end = 0 /\ wf_train_start = 0 /\ window_num = 0
    /\ wf_results = <<>> /\ wf_checks = 0
    /\ mc_end = 0 /\ mc_start = 0 /\ mc_i = 0 /\ mc_results = <<>>
    /\ mc_summary = NoSummary /\ mc_failed = 0

----------------------------------------------------------------------------
(* A tester called on its own, with either validator *)

Init ==
    /\ IdleLoops
    /\ fn_call = NoCall
    /\ fn_result = NoCall
    /\ strategy_function = StrategyOutcomes
    /\ pipeline = FALSE
    /\ validator \in {"base", "real"}
    /\ now \in Clock
    /\ choices_left = MaxChoices
    /\ \/ /\ pc = "mt_start"
          /\ mt_cfg \in MTConfigs /\ wf_cfg = RunWFConfig /\ mc_cfg = RunMCConfig
       \/ /\ pc = "wf_start"
          /\ mt_cfg = RunMTConfig /\ wf_cfg \in WFConfigs /\ mc_cfg = RunMCConfig
       \/ /\ pc = "mc_start"
          /\ mt_cfg = RunMTConfig /\ wf_cfg = RunWFConfig /\ mc_cfg \in MCConfigs

Next ==
    \/ MTStart \/ MTFrame \/ MTReturn
    \/ WFStart \/ WFWindow \/ WFBreak
    \/ MCStart \/ MCSim \/ MCAnalyze

Spec == Init /\ [][Next]_vars

----------------------------------------------------------------------------
(* walk_forward_analysis on a validator built around any callable *)

InitWF ==
    /\ IdleLoops
    /\ fn_call = NoCall /\ fn_result = NoCall
    /\ strategy_function = AnyCallable
    /\ pipeline = FALSE
    /\ validator \in {"base", "real"}
    /\ now = 0
    /\ choices_left = 1
    /\ pc = "wf_start"
    /\ mt_cfg = RunMTConfig /\ wf_cfg \in WFConfigs /\ mc_cfg = RunMCConfig

NextWF == WFStart \/ WFWindow \/ WFBreak

SpecWF == InitWF /\ [][NextWF]_vars

\* The tester is sequential code: a step that can be taken is taken.
SpecWFLive == InitWF /\ [][NextWF]_vars /\ WF_vars(NextWF)

----------------------------------------------------------------------------
(* generate_validation_report called on results given by the caller *)

MaxMT == 2
MaxWF == 2

SharpeInputs == { -100, 0, 50, 100, 200 }

PctInputs == { FInt(v) : v \in { 0, 50, 69, 70, 100 } }

SeqsUpTo(S, n) == UNION { [1..k -> S] : k \in 0..n }

\* A result whose Sharpe ratio is s; the report reads nothing else of it.
ResultWithSharpe(period, s) ==
    BacktestResult(period, 0, 0, [Baseline EXCEPT !.sharpe_ratio = s], <<>>)

SummaryWithPct(pct) ==
    [status |-> "analysis", num_simulations |-> 100, profitable_pct |-> pct,
     positive_sharpe_pct |-> pct, all_results |-> <<>>]

InitReport ==
    /\ pc = "report"
    /\ pipeline = FALSE
    /\ validator = "base"
    /\ now = 0
    /\ choices_left = 0
    /\ fn_call = NoCall
    /\ fn_result = NoCall
    /\ strategy_function = StrategyOutcomes
    /\ calls = <<>>
    /\ error = "none"
    /\ returned = {}
    /\ report = NoReport
    /\ mt_cfg = RunMTConfig /\ wf_cfg = RunWFConfig /\ mc_cfg = RunMCConfig
    /\ mt_frames = <<>> /\ mt_end = 0 /\ mt_i = 0
    /\ wf_end = 0 /\ wf_train_start = 0 /\ window_num = 0 /\ wf_checks = 0
    /\ mc_end = 0 /\ mc_start = 0 /\ mc_i = 0 /\ mc_results = <<>>
    /\ mc_failed = 0
    /\ \E a \in SeqsUpTo(SharpeInputs, MaxMT) :
         mt_results = [i \in 1..Len(a) |-> ResultWithSharpe(TFNames[i], a[i])]
    /\ \E b \in SeqsUpTo(SharpeInputs, MaxWF) :
         wf_results = [i \in 1..Len(b) |-> ResultWithSharpe(WFPeriod(i), b[i])]
    /\ \E p \in PctInputs : mc_summary = SummaryWithPct(p)

NextReport == GenerateReport

SpecReport == InitReport /\ [][NextReport]_vars

\* Sharpe ratios as the backtests hand them on: NaN is the Sharpe ratio of a
\* window with a single return
AnySharpe == { NaN, 0, 100 }

InitReportAny ==
    /\ pc = "report"
    /\ pipeline = FALSE
    /\ validator = "base"
    /\ now = 0
    /\ choices_left = 0
    /\ fn_call = NoCall
    /\ fn_result = NoCall
    /\ strategy_function = StrategyOutcomes
    /\ calls = <<>>
    /\ error = "none"
    /\ returned = {}
    /\ report = NoReport
    /\ mt_cfg = RunMTConfig /\ wf_cfg = RunWFConfig /\ mc_cfg = RunMCConfig
    /\ mt_frames = <<>> /\ mt_end = 0 /\ mt_i = 0
    /\ wf_end = 0 /\ wf_train_start = 0 /\ window_num = 0 /\ wf_checks = 0
    /\ mc_end = 0 /\ mc_start = 0 /\ mc_i = 0 /\ mc_results = <<>>
    /\ mc_failed = 0
    /\ \E a \in SeqsUpTo(AnySharpe, MaxMT) :
         mt_results = [i \in 1..Len(a) |-> ResultWithSharpe(TFNames[i], a[i])]
    /\ \E b \in SeqsUpTo(AnySharpe, MaxWF) :
         wf_results = [i \in 1..Len(b) |-> ResultWithSharpe(WFPeriod(i), b[i])]
    /\ \E p \in PctInputs : mc_summary = SummaryWithPct(p)

SpecReportAny == InitReportAny /\ [][NextReport]_vars

----------------------------------------------------------------------------
(* run_full_validation, run_complete_strategy.py:233-361 *)

RunChoices == 1

InitRun ==
    /\ IdleLoops
    /\ fn_call = NoCall
    /\ fn_result = NoCall
    /\ strategy_function = StrategyOutcomes
    /\ pc = "mt_start"
    /\ pipeline = TRUE
    /\ validator = "real"
    /\ now = 0
    /\ choices_left = RunChoices
    /\ mt_cfg = RunMTConfig /\ wf_cfg = RunWFConfig /\ mc_cfg = RunMCConfig

NextRun == Next \/ GenerateReport

SpecRun == InitRun /\ [][NextRun]_vars

----------------------------------------------------------------------------
(* run_demo, demo_validation.py:47-112: the three testers and the report    *)
(* in sequence on a PortfolioValidator, with the periods scaled down to a   *)
(* few days                                                                 *)

DemoMTConfig ==
    [given |-> TRUE,
     timeframes |-> << Frame("6mo", 2), Frame("1yr", 3), Frame("2yr", 4) >>]

DemoWFConfig == [train |-> 1, test |-> 2, step |-> 1, total |-> 4]

DemoMCConfig ==
    [ranges |-> << Range("num_stocks", 800, 900, TRUE) >>,
     num_simulations |-> 3,
     test_days |-> 2]

InitDemo ==
    /\ IdleLoops
    /\ fn_call = NoCall
    /\ fn_result = NoCall
    /\ strategy_function = StrategyOutcomes
    /\ pc = "mt_start"
    /\ pipeline = TRUE
    /\ validator = "base"
    /\ now = 0
    /\ choices_left = MaxChoices
    /\ mt_cfg = DemoMTConfig /\ wf_cfg = DemoWFConfig /\ mc_cfg = DemoMCConfig

SpecDemo == InitDemo /\ [][NextRun]_vars

----------------------------------------------------------------------------
(* backtest_portfolio and RealPortfolioValidator._run_backtest called on    *)
(* a portfolio and price frames given by the caller                         *)

MaxDays == 3

Dates == 1..MaxDays

PriceLevels == { 1, 2 }

CloseColumns ==
    UNION { [index -> PriceLevels \cup {NaN}] : index \in SUBSET Dates }

TickerData ==
    { [kind |-> "missing"], [kind |-> "no_close"] }
        \cup { [kind |-> "frame", close |-> c] : c \in CloseColumns }

Holding(t, w) == [ticker |-> t, weight |-> w]

\* Weights are non-negative and need not sum to 1.
OneHolding == { <<>> } \cup { << Holding("A", a) >> : a \in { 0, 1 } }

TwoHoldings ==
    { << Holding("A", x[1]), Holding("B", x[2]) >> :
        x \in { <<1, 3>>, <<0, 1>>, <<1, 0>>, <<0, 0>> } }

Tickers(weights) == { weights[i].ticker : i \in 1..Len(weights) }

\* Daily returns of a portfolio: a loss, nothing, a gain.
DailyReturns == { Frac(-1, 2), FInt(0), FInt(1) }

ReturnSeries == UNION { [1..n -> DailyReturns] : n \in 0..MaxDays }

\* Portfolios of at most one instrument go through both functions and both
\* windows, portfolios of two through the engine over the whole window.
EngineCalls ==
    UNION { [fn : { "backtest_portfolio", "_run_backtest" },
             weights : { w },
             stock_data : [Tickers(w) -> TickerData],
             start_date : { 1, 2 },
             end_date : { MaxDays }] : w \in OneHolding }
      \cup
    UNION { [fn : { "backtest_portfolio" },
             weights : { w },
             stock_data : [Tickers(w) -> TickerData],
             start_date : { 1 },
             end_date : { MaxDays }] : w \in TwoHoldings }
      \cup
    UNION { [fn : { "PortfolioValidator._run_backtest" },
             returns : [1..(MaxDays - d) -> DailyReturns],
             start_date : { d },
             end_date : { MaxDays }] : d \in Dates }
      \cup
    [fn : { "PortfolioValidator._calculate_sharpe",
            "BacktestEngine._calculate_sharpe" },
     returns : ReturnSeries]

InitEngine ==
    /\ IdleLoops
    /\ pc = "call"
    /\ pipeline = FALSE
    /\ validator = "real"
    /\ now = 0
    /\ choices_left = 0
    /\ mt_cfg = RunMTConfig /\ wf_cfg = RunWFConfig /\ mc_cfg = RunMCConfig
    /\ fn_call \in EngineCalls
    /\ fn_result = NoCall
    /\ strategy_function = StrategyOutcomes

\* What a call leaves behind: its result, or the exception it raised.
Finish(out) ==
    /\ fn_result' = out
    /\ pc' = IF out.kind = "raise" THEN "raised" ELSE "done"
    /\ error' = IF out.kind = "raise" THEN out.error ELSE error
    /\ UNCHANGED <<pipeline, validator, now, fn_call, strategy_function,
                   choices_left, calls, returned, wfVars, mtVars, mcVars, report>>

BacktestPortfolio ==
    /\ pc = "call"
    /\ fn_call.fn = "backtest_portfolio"
    /\ Finish(backtest_portfolio(fn_call.weights, fn_call.stock_data,
                                 fn_call.start_date, fn_call.end_date))

\* run_complete_strategy.py:281-316: what _run_backtest makes of the engine's
\* answer
EngineOutcome(out) ==
    IF out.kind = "raise" THEN [kind |-> "raise"]
    ELSE IF out.result.success
    THEN [kind |-> "metrics",
          m |-> [total_return |-> out.result.total_return,
                 sharpe_ratio |-> out.result.sharpe_ratio,
                 max_drawdown |-> out.result.max_drawdown,
                 win_rate |-> out.result.win_rate,
                 annual_return |-> out.result.annual_return,
                 volatility |-> out.result.volatility]]
    ELSE [kind |-> "failure"]

\* RealPortfolioValidator._run_backtest with predefined_portfolio
RunBacktest ==
    /\ pc = "call"
    /\ fn_call.fn = "_run_backtest"
    /\ LET stocks == [i \in 1..Len(fn_call.weights) |-> fn_call.weights[i].ticker]
           out == backtest_portfolio(fn_call.weights, fn_call.stock_data,
                                     fn_call.start_date, fn_call.end_date)
       IN  Finish(RealBacktest(WFPeriod(1), fn_call.start_date, fn_call.end_date,
                               [stocks |-> stocks], EngineOutcome(out)))

\* PortfolioValidator._run_backtest with predefined_portfolio, on the returns
\* that _calculate_portfolio_returns drew for the window
BaseRunBacktest ==
    /\ pc = "call"
    /\ fn_call.fn = "PortfolioValidator._run_backtest"
    /\ LET days == fn_call.end_date - fn_call.start_date
       IN  Finish(BaseBacktest(WFPeriod(1), fn_call.start_date, fn_call.end_date,
                               [stocks |-> <<"A", "B">>],
                               [kind |-> "metrics",
                                m |-> BaseMetrics(fn_call.returns, days)]))

CalculateSharpe ==
    /\ pc = "call"
    /\ \/ /\ fn_call.fn = "PortfolioValidator._calculate_sharpe"
          /\ Finish(Returned(PortfolioValidator_calculate_sharpe(fn_call.returns)))
       \/ /\ fn_call.fn = "BacktestEngine._calculate_sharpe"
          /\ Finish(Returned(BacktestEngine_calculate_sharpe(fn_call.returns)))

NextEngine == BacktestPortfolio \/ RunBacktest \/ BaseRunBacktest \/ CalculateSharpe

SpecEngine == InitEngine /\ [][NextEngine]_vars

----------------------------------------------------------------------------
(* CompleteStrategy and strategy_function_for_validation,                  *)
(* run_complete_strategy.py:56-211                                         *)

\* load_stock_universe: the tickers of the universe, in its order
Universe == << "A", "B", "C" >>

\* The tickers of a list that are in a set, in the list's order.
Among(list, set) == SelectSeq(list, LAMBDA t : t \in set)

Reverse(s) == [i \in 1..Len(s) |-> s[Len(s) + 1 - i]]

\* abs(corr_matrix.loc[a, b]) of two different tickers, in hundredths
CorrLevels == { 20, 60 }

TickerPairs == { {a, b} : a, b \in { Universe[i] : i \in 1..Len(Universe) } }
                   \ { {Universe[i]} : i \in 1..Len(Universe) }

\* max(correlations), module_3_correlation_analysis.py:104-105
MaxCorr(corr, candidate, selected) ==
    LET correlations == [k \in 1..Len(selected) |-> corr[{candidate, selected[k]}]]
    IN  IF Len(selected) = 0 THEN 0
        ELSE correlations[CHOOSE i \in 1..Len(selected) :
                 \A k \in 1..Len(selected) : correlations[k] <= correlations[i]]

\* The first candidate with the lowest maximum correlation, lines 100-110
BestCandidate(corr, candidates, selected) ==
    candidates[CHOOSE i \in 1..Len(candidates) :
        /\ \A k \in 1..Len(candidates) :
              MaxCorr(corr, candidates[i], selected)
                  <= MaxCorr(corr, candidates[k], selected)
        /\ \A k \in 1..(i - 1) :
              MaxCorr(corr, candidates[i], selected)
                  < MaxCorr(corr, candidates[k], selected)]

\* The greedy loop, module_3_correlation_analysis.py:99-118
RECURSIVE GreedySelect(_, _, _, _, _)
GreedySelect(selected, candidates, corr, max_correlation, target_count) ==
    IF Len(selected) >= target_count \/ Len(candidates) = 0 THEN selected
    ELSE LET best == BestCandidate(corr, candidates, selected)
         IN  IF MaxCorr(corr, best, selected) < max_correlation
             THEN GreedySelect(Append(selected, best),
                               SelectSeq(candidates, LAMBDA t : t # best),
                               corr, max_correlation, target_count)
             ELSE selected

\* CorrelationAnalyzer.select_low_correlation_stocks, lines 47-120;
\* by_return is avg_returns.index, the tickers by falling average return
select_low_correlation_stocks(tickers, stock_data, by_return, corr, max_correlation, target_count) ==
    LET filtered == Among(tickers, stock_data)
        ranked == Among(by_return, stock_data \cap { tickers[i] : i \in 1..Len(tickers) })
    IN  IF Len(filtered) = 0 THEN <<>>
        ELSE GreedySelect(SubSeq(ranked, 1, 1), Tail(ranked), corr,
                          max_correlation, target_count)

StrategyFailure(message) == [success |-> FALSE, message |-> message]

\* Steps 1 to 3 of run_strategy: the tickers selected, lines 105-129
SelectedTickers(env) ==
    select_low_correlation_stocks(Among(Universe, env.passed), env.downloaded,
                                  env.by_return, env.corr,
                                  env.correlation_threshold, env.target_stocks)

\* Mutant: the test after the correlation step only refuses an empty selection.
run_strategy_OneStockEnough(env) ==
    LET selected_tickers == SelectedTickers(env)
    IN  IF env.downloaded = {} THEN StrategyFailure("No data downloaded")
        ELSE IF env.passed = {}
        THEN StrategyFailure("No stocks passed technical screening")
        ELSE IF Len(selected_tickers) = 0
        THEN StrategyFailure("Insufficient stocks after correlation filtering")
        ELSE IF ~env.opt_result.success THEN StrategyFailure("Optimization failed")
        ELSE [success |-> TRUE, stocks |-> selected_tickers,
              weights |-> env.opt_result.weights, stock_data |-> env.downloaded]

\* CompleteStrategy.run_strategy, lines 56-144; env holds what the data
\* collector, the screener and the optimizer answer
run_strategy(env) ==
    LET selected_tickers == SelectedTickers(env)
    IN  IF env.downloaded = {} THEN StrategyFailure("No data downloaded")
        ELSE IF env.passed = {}
        THEN StrategyFailure("No stocks passed technical screening")
        ELSE IF Len(selected_tickers) < 2
        THEN StrategyFailure("Insufficient stocks after correlation filtering")
        ELSE IF ~env.opt_result.success THEN StrategyFailure("Optimization failed")
        ELSE [success |-> TRUE, stocks |-> selected_tickers,
              weights |-> env.opt_result.weights, stock_data |-> env.downloaded]

\* strategy_function_for_validation, lines 189-211
strategy_function_for_validation(env) ==
    LET result == run_strategy(env)
    IN  IF result.success
        THEN [stocks |-> result.stocks, weights |-> result.weights,
              stock_data |-> result.stock_data]
        ELSE [stocks |-> <<>>, weights |-> <<>>, stock_data |-> {}]

\* optimize_max_sharpe: weights for the selection, or a failure
OptResults == { [success |-> TRUE, weights |-> "optimal"], [success |-> FALSE] }

\* What the collaborators answer in one run: the tickers with data, those
\* that pass the screen, their order by average return, their correlations,
\* the optimizer's result; and the two parameters of the selection.
StrategyEnvs ==
    UNION { [downloaded : { d },
             passed : SUBSET d,
             by_return : { Universe, Reverse(Universe) },
             corr : [TickerPairs -> CorrLevels],
             correlation_threshold : { 40 },
             target_stocks : { 1, 3 },
             opt_result : OptResults]
            : d \in SUBSET { Universe[i] : i \in 1..Len(Universe) } }

MaxTarget == 3

\* select_low_correlation_stocks called on candidates in the universe's
\* order, some of them without data, for any target_count from 0 on
SelectionCalls ==
    UNION { [fn : { "select_low_correlation_stocks" },
             tickers : { Among(Universe, c) },
             stock_data : SUBSET { Universe[i] : i \in 1..Len(Universe) },
             by_return : { Universe, Reverse(Universe) },
             corr : [TickerPairs -> CorrLevels],
             max_correlation : { 40 },
             target_count : 0..MaxTarget]
            : c \in SUBSET { Universe[i] : i \in 1..Len(Universe) } }

InitStrategy ==
    /\ IdleLoops
    /\ pc = "call"
    /\ pipeline = FALSE
    /\ validator = "real"
    /\ now = 0
    /\ choices_left = 0
    /\ mt_cfg = RunMTConfig /\ wf_cfg = RunWFConfig /\ mc_cfg = RunMCConfig
    /\ fn_call \in { [fn |-> "strategy_function_for_validation", env |-> e] :
                       e \in StrategyEnvs }
                        \cup SelectionCalls
    /\ fn_result = NoCall
    /\ strategy_function = StrategyOutcomes

StrategyFunctionForValidation ==
    /\ pc = "call"
    /\ fn_call.fn = "strategy_function_for_validation"
    /\ Finish(Returned(strategy_function_for_validation(fn_call.env)))

SelectLowCorrelationStocks ==
    /\ pc = "call"
    /\ fn_call.fn = "select_low_correlation_stocks"
    /\ Finish(Returned(select_low_correlation_stocks(
                  fn_call.tickers, fn_call.stock_data, fn_call.by_return,
                  fn_call.corr, fn_call.max_correlation, fn_call.target_count)))

NextStrategy == StrategyFunctionForValidation \/ SelectLowCorrelationStocks

SpecStrategy == InitStrategy /\ [][NextStrategy]_vars

----------------------------------------------------------------------------
(* calculate_allocation, src/webapp/api/portfolio_service.py:65-114 *)

\* math.floor of a fraction
Floor(x) == x[1] \div x[2]

\* round(x, digits) for digits 2 and 4. A value halfway between two
\* neighbours goes to the one its binary representation is nearer to: up
\* says which one that is.
Round(x, digits, up) ==
    LET scale == IF digits = 2 THEN 100 ELSE 10000
        y == FMul(x, FInt(scale))
        below == Floor(y)
        rest == y[1] - below * y[2]
    IN  IF 2 * rest < y[2] THEN Frac(below, scale)
        ELSE IF 2 * rest > y[2] THEN Frac(below + 1, scale)
        ELSE IF up THEN Frac(below + 1, scale) ELSE Frac(below, scale)

Stock(ticker, weight, current_price) ==
    [ticker |-> ticker, weight |-> weight, current_price |-> current_price]

\* lines 86-91
SharesOf(stock, amount) ==
    Floor(FDiv(FMul(stock.weight, amount), stock.current_price))

\* lines 94-104: the entry of a stock of which at least one share is bought
StockEntry(stock, amount, up) ==
    LET shares == SharesOf(stock, amount)
    IN  [ticker |-> stock.ticker,
         shares |-> shares,
         price |-> Round(stock.current_price, 2, up),
         amount |-> Round(FMul(FInt(shares), stock.current_price), 2, up)]

\* calculate_allocation, lines 65-114, on the stocks load_portfolio_stocks read
calculate_allocation(portfolio, amount, up) ==
    LET bought == SelectSeq(portfolio, LAMBDA stock : SharesOf(stock, amount) > 0)
        total_invested ==
            FSum([i \in 1..Len(bought) |->
                    FMul(FInt(SharesOf(bought[i], amount)), bought[i].current_price)])
        cash_remaining == FSub(amount, total_invested)
        efficiency == IF FLt(FInt(0), amount) THEN FDiv(total_invested, amount)
                      ELSE FInt(0)
    IN  [stocks |-> [i \in 1..Len(bought) |-> StockEntry(bought[i], amount, up)],
         total_invested |-> Round(total_invested, 2, up),
         cash_remaining |-> Round(cash_remaining, 2, up),
         efficiency |-> Round(efficiency, 4, up)]

\* Weights of the portfolio file: non-negative, summing to at most 1.
StockWeights == { <<FInt(0)>>, <<Frac(1, 2)>>, <<FInt(1)>>,
                  <<Frac(1, 2), Frac(1, 2)>>, <<FInt(0), FInt(1)>>,
                  <<Frac(1, 2), FInt(0)>> }

\* Prices in dollars: whole cents and tenths of a cent.
StockPrices == { FInt(1), Frac(1004, 1000), Frac(100006, 1000) }

AllocationTickers == << "A", "B" >>

PortfolioFiles ==
    { <<>> } \cup
    UNION { { [i \in 1..Len(w) |-> Stock(AllocationTickers[i], w[i], p[i])] :
                p \in [1..Len(w) -> StockPrices] } : w \in StockWeights }

\* The amounts asked for, in dollars.
Amounts == { FInt(0), Frac(1, 1000), FInt(1), Frac(201, 100), FInt(5),
             Frac(100006, 1000) }

\* The amounts a request can carry: the query value is parsed as a float, so
\* negative numbers and nan are among them.
RequestAmounts == Amounts \cup { FInt(-100), FNaN }

\* amount <= 0 on floats: False when amount is nan
NotPositive(amount) == amount # FNaN /\ ~FLt(FInt(0), amount)

\* main.py:91-95: the request is answered with HTTPException 400
Rejected(amount) == NotPositive(amount)

\* What portfolio_service.calculate_allocation does with the handler's amount:
\* with nan, floor(nan) raises ValueError at portfolio_service.py:91 for the
\* first stock, and without stocks the result carries cash_remaining = nan.
ServiceOutcome(portfolio, amount, up) ==
    IF amount = FNaN
    THEN IF Len(portfolio) > 0 THEN Raised("ValueError")
         ELSE Returned([stocks |-> <<>>, total_invested |-> FInt(0),
                        cash_remaining |-> FNaN, efficiency |-> FInt(0)])
    ELSE Returned(calculate_allocation(portfolio, amount, up))

\* The status of the response: 500 for an exception of the service and for a
\* body with nan, which is not JSON.
StatusOf(out) ==
    IF out.kind = "raise" THEN 500
    ELSE IF out.result.cash_remaining = FNaN THEN 500
    ELSE 200

\* get_portfolio, main.py:77-100
get_portfolio(portfolio, amount, up) ==
    IF Rejected(amount)
    THEN [status_code |-> 400, service_called |-> FALSE]
    ELSE [status_code |-> StatusOf(ServiceOutcome(portfolio, amount, up)),
          service_called |-> TRUE]

InitAllocation ==
    /\ IdleLoops
    /\ pc = "call"
    /\ pipeline = FALSE
    /\ validator = "real"
    /\ now = 0
    /\ choices_left = 0
    /\ mt_cfg = RunMTConfig /\ wf_cfg = RunWFConfig /\ mc_cfg = RunMCConfig
    /\ fn_call \in [fn : { "calculate_allocation" }, portfolio : PortfolioFiles,
                     amount : Amounts]
                        \cup [fn : { "get_portfolio" }, portfolio : PortfolioFiles,
                              amount : RequestAmounts]
    /\ fn_result = NoCall
    /\ strategy_function = StrategyOutcomes

CalculateAllocation ==
    /\ pc = "call"
    /\ fn_call.fn = "calculate_allocation"
    /\ \E up \in BOOLEAN :
          Finish(Returned(calculate_allocation(fn_call.portfolio, fn_call.amount, up)))

GetPortfolio ==
    /\ pc = "call"
    /\ fn_call.fn = "get_portfolio"
    /\ \E up \in BOOLEAN :
          Finish(Returned(get_portfolio(fn_call.portfolio, fn_call.amount, up)))

NextAllocation == CalculateAllocation \/ GetPortfolio

SpecAllocation == InitAllocation /\ [][NextAllocation]_vars

----------------------------------------------------------------------------
(* The parameters of CompleteStrategy, run_complete_strategy.py:27-77 and   *)
(* 189-197.  A params argument is a mapping of some keys to values; the     *)
(* empty mapping stands for None and for {}, which the code treats alike.   *)

MaxRuns == 2

\* lines 41-50, two of the eight entries
DefaultParams == [target_stocks |-> 10, correlation_threshold |-> 40]

\* Values a caller may pass; lookback is a key self.params does not have.
ParamChoices ==
    [target_stocks |-> { 3, 5 }, correlation_threshold |-> { 30 }, lookback |-> { 5 }]

ParamArgs ==
    UNION { { a \in [keys -> { 3, 5, 30 }] : \A k \in keys : a[k] \in ParamChoices[k] } :
              keys \in SUBSET DOMAIN ParamChoices }

\* CompleteStrategy.__init__, lines 37-50: params.get(key, default)
CompleteStrategy_init(params) ==
    [k \in DOMAIN DefaultParams |->
        IF k \in DOMAIN params THEN params[k] ELSE DefaultParams[k]]

\* run_strategy, lines 73-77: the overrides are written into self.params
OverrideParams(self_params, params) ==
    [k \in DOMAIN self_params |->
        IF k \in DOMAIN params THEN params[k] ELSE self_params[k]]

ParamCalls ==
    [fn : { "CompleteStrategy" }, init : ParamArgs, runs : SeqsUpTo(ParamArgs, MaxRuns)]
        \cup [fn : { "strategy_function_for_validation" },
              runs : SeqsUpTo(ParamArgs, MaxRuns)]

InitParams ==
    /\ IdleLoops
    /\ pc = "call"
    /\ pipeline = FALSE
    /\ validator = "real"
    /\ now = 0
    /\ choices_left = 0
    /\ mt_cfg = RunMTConfig /\ wf_cfg = RunWFConfig /\ mc_cfg = RunMCConfig
    /\ fn_call \in ParamCalls
    /\ fn_result = NoCall
    /\ strategy_function = StrategyOutcomes

\* The parameters each invocation so far has run with.
Effective == IF fn_result = NoCall THEN <<>> ELSE fn_result.effective

ParamStep(self_params, effective) ==
    /\ fn_result' = [fn |-> fn_call.fn, params |-> self_params,
                     effective |-> effective]
    /\ pc' = IF Len(effective) = Len(fn_call.runs) THEN "done" ELSE "call"
    /\ UNCHANGED <<pipeline, validator, now, fn_call, strategy_function, error,
                   choices_left, calls, returned, wfVars, mtVars, mcVars, report>>

\* strategy = CompleteStrategy(params)
CompleteStrategyInit ==
    /\ pc = "call"
    /\ fn_call.fn = "CompleteStrategy"
    /\ fn_result = NoCall
    /\ ParamStep(CompleteStrategy_init(fn_call.init), <<>>)

\* strategy.run_strategy(start_date, end_date, params) on that object
RunStrategy ==
    /\ pc = "call"
    /\ fn_call.fn = "CompleteStrategy"
    /\ fn_result # NoCall
    /\ LET params == fn_call.runs[Len(Effective) + 1]
           self_params == OverrideParams(fn_result.params, params)
       IN  ParamStep(self_params, Append(Effective, self_params))

\* lines 195-197: a new CompleteStrategy(params) for every invocation, then
\* run_strategy(start_date, end_date, params)
ValidationCall ==
    /\ pc = "call"
    /\ fn_call.fn = "strategy_function_for_validation"
    /\ Len(Effective) < Len(fn_call.runs)
    /\ LET params == fn_call.runs[Len(Effective) + 1]
           self_params == OverrideParams(CompleteStrategy_init(params), params)
       IN  ParamStep(self_params, Append(Effective, self_params))

NextParams == CompleteStrategyInit \/ RunStrategy \/ ValidationCall

SpecParams == InitParams /\ [][NextParams]_vars

----------------------------------------------------------------------------
(* Properties *)

CallsBy(t) == SelectSeq(calls, LAMBDA c : c.by = t)

WFFirstStart == wf_end - wf_cfg.total

\* floor((total - train - test) / step) + 1 when non-negative, else zero
WindowFormula(c) ==
    IF c.total - c.train - c.test >= 0
    THEN (c.total - c.train - c.test) \div c.step + 1
    ELSE 0

\* C1: with step_days >= 1, walk_forward_analysis returns exactly
\* floor((total - train - test) / step) + 1 results when total - train - test
\* is >= 0 and an empty list otherwise.
C1_WindowCount ==
    ("wf" \in returned /\ wf_cfg.step >= 1)
        => Len(wf_results) = WindowFormula(wf_cfg)

\* total=730, train=365, test=90, step=90 has returned its 4 windows
C1_Witness ==
    /\ "wf" \in returned
    /\ wf_cfg = RunWFConfig
    /\ Len(wf_results) = 4

\* C2: every emitted window is backtested from train_end = train_start +
\* train_days on, so the test window starts where the training window ends,
\* and each train_start is step_days after the previous one, the first being
\* now - total_history_days.
C2_TrainTestAdjacent ==
    \A k \in 1..Len(wf_results) :
        LET c == CallsBy("wf")[k]
            r == wf_results[k]
        IN  /\ r.start_date = c.end_date
            /\ c.end_date = c.start_date + wf_cfg.train
            /\ c.start_date <= r.start_date /\ r.start_date <= r.end_date
            /\ k = 1 => c.start_date = WFFirstStart
            /\ k > 1 => c.start_date = CallsBy("wf")[k - 1].start_date + wf_cfg.step

C2_Witness ==
    /\ Len(wf_results) >= 3
    /\ wf_cfg.train >= 1 /\ wf_cfg.test >= 1 /\ wf_cfg.step >= 2

\* C6: no partial window is emitted: every result's test window ends at
\* train_start + train_days + test_days <= now; a window ending exactly now
\* is emitted; the loop stops at the first window ending after now and
\* appends nothing for it.
C6_NoPartialWindow ==
    /\ \A k \in 1..Len(wf_results) :
          /\ wf_results[k].end_date =
                 CallsBy("wf")[k].start_date + wf_cfg.train + wf_cfg.test
          /\ wf_results[k].end_date <= wf_end
    /\ "wf" \in returned =>
          /\ WFTestEnd > wf_end
          /\ window_num = Len(wf_results) + 1
          /\ wf_train_start = WFFirstStart + Len(wf_results) * wf_cfg.step
          /\ \A j \in 0..LoopCap :
                WFFirstStart + j * wf_cfg.step + wf_cfg.train + wf_cfg.test = wf_end
                    => \E k \in 1..Len(wf_results) : wf_results[k].end_date = wf_end

\* the last emitted window ends exactly now, after an earlier one
C6_Witness ==
    /\ "wf" \in returned
    /\ Len(wf_results) >= 2
    /\ wf_results[Len(wf_results)].end_date = wf_end

\* C5: a configuration error (step_days <= 0 or test_days <= 0 for the
\* walk-forward tester, empty parameter_ranges or test_days <= 0 for the Monte
\* Carlo tester) is raised before the strategy function is invoked and before
\* any result is recorded.
C5_ConfigErrorsFatal ==
    /\ (wf_cfg.step <= 0 \/ wf_cfg.test <= 0)
          => (CallsBy("wf") = <<>> /\ wf_results = <<>> /\ "wf" \notin returned)
    /\ (mc_cfg.ranges = <<>> \/ mc_cfg.test_days <= 0)
          => (CallsBy("mc") = <<>> /\ mc_results = <<>> /\ "mc" \notin returned)

\* C10: a Monte Carlo simulation that raises is skipped and the loop goes on
\* to the last simulation; the summary's num_simulations is the number of
\* simulations that did not raise, and both percentages divide by it. After a
\* skipped simulation the tester raises only where no simulation is left to
\* summarise, and then after the last simulation has run.
C10_FailedSimulationsSkipped ==
    /\ pc = "mc_loop" =>
          /\ Len(CallsBy("mc")) = mc_i
          /\ Len(mc_results) = mc_i - mc_failed
    /\ (~pipeline /\ mc_failed > 0 /\ pc = "raised") =>
          (error = "ZeroDivisionError" /\ mc_i = mc_cfg.num_simulations
              /\ mc_results = <<>>)
    /\ "mc" \in returned =>
          LET n == mc_cfg.num_simulations - mc_failed
              wins == { i \in 1..Len(mc_results) : mc_results[i].return > 0 }
              good == { i \in 1..Len(mc_results) : Gt(mc_results[i].sharpe, 0) }
          IN  /\ Len(CallsBy("mc")) = mc_cfg.num_simulations
              /\ mc_summary.num_simulations = n
              /\ n <= mc_cfg.num_simulations
              /\ Len(mc_results) = n
              /\ mc_summary.profitable_pct[1] * n
                     = 100 * Cardinality(wins) * mc_summary.profitable_pct[2]
              /\ mc_summary.positive_sharpe_pct[1] * n
                     = 100 * Cardinality(good) * mc_summary.positive_sharpe_pct[2]

\* the strategy raised in an early simulation and the last one was recorded
C10_Witness ==
    /\ "mc" \in returned
    /\ mc_failed >= 1
    /\ \E i \in 1..Len(CallsBy("mc")) :
          /\ CallsBy("mc")[i].answer = "raise"
          /\ i < mc_cfg.num_simulations
    /\ mc_results[Len(mc_results)].simulation = mc_cfg.num_simulations

PositivePct(results) ==
    Percent(CountPositive(Sharpes(results)), Len(results))

Tiers == { "STRONG", "MODERATE", "WEAK", "FAIL" }

\* C3: the robustness_score of every report lies in [0, 100].
C3_ScoreInRange ==
    report.status = "report" =>
        /\ FGe(report.robustness_score, FInt(0))
        /\ FGe(FInt(100), report.robustness_score)

\* C4: a report asked for with no walk-forward result or no multi-timeframe
\* result is still returned, with a score and a tier, and nothing is raised.
C4_DegenerateReported ==
    (pc # "report" /\ (mt_results = <<>> \/ wf_results = <<>>))
        => (pc = "done" /\ report.status = "report"
                /\ report.recommendation \in Tiers)

\* C8: the recommendation is STRONG when score >= 70, MODERATE when
\* 50 <= score < 70, WEAK when 30 <= score < 50, FAIL when score < 30; the
\* values 70, 50 and 30 belong to the higher tier.
C8_TierByThreshold ==
    report.status = "report" =>
        LET score == report.robustness_score
            tier == report.recommendation
        IN  /\ tier \in Tiers
            /\ tier = "STRONG" <=> FGe(score, FInt(70))
            /\ tier = "MODERATE" <=> (FGe(score, FInt(50)) /\ FLt(score, FInt(70)))
            /\ tier = "WEAK" <=> (FGe(score, FInt(30)) /\ FLt(score, FInt(50)))
            /\ tier = "FAIL" <=> FLt(score, FInt(30))

\* a score of exactly 30 is WEAK
C8_Witness ==
    /\ report.status = "report"
    /\ report.robustness_score = FInt(30)
    /\ report.recommendation = "WEAK"

\* C23: a report on non-empty result sets and a Monte Carlo percentage of at
\* most 100 has mt_score, wf_score, mc_score and sharpe_score each at most 50
\* and so a robustness_score of at most 50; it is never STRONG, and MODERATE
\* only with a score of exactly 50.
C23_ComponentsAtMostFifty ==
    (/\ report.status = "report"
     /\ FGe(FInt(100), mc_summary.positive_sharpe_pct)) =>
        LET mt_score == HalfOf(PositivePct(mt_results))
            wf_score == HalfOf(PositivePct(wf_results))
            mc_score == HalfOf(mc_summary.positive_sharpe_pct)
            sharpe_score ==
                SharpeScore(MeanSharpe(Sharpes(mt_results) \o Sharpes(wf_results)))
            AtMostFifty(x) == x # FNaN /\ FGe(FInt(50), x)
        IN  /\ AtMostFifty(mt_score) /\ AtMostFifty(wf_score)
            /\ AtMostFifty(mc_score) /\ AtMostFifty(sharpe_score)
            /\ AtMostFifty(report.robustness_score)
            /\ report.recommendation # "STRONG"
            /\ report.recommendation = "MODERATE" =>
                   report.robustness_score = FInt(50)

WarningOrder == << "multi_timeframe", "walk_forward", "monte_carlo" >>

\* C9: the multi-timeframe warning is present iff that percentage is < 60,
\* the walk-forward warning iff its percentage is < 50, the Monte Carlo
\* warning iff its percentage is < 70, each independently of the others and
\* in that order.
C9_WarningsIndependent ==
    report.status = "report" =>
        LET w == report.warnings
            due == [i \in 1..3 |->
                      CASE i = 1 -> FLt(PositivePct(mt_results), FInt(60))
                        [] i = 2 -> FLt(PositivePct(wf_results), FInt(50))
                        [] i = 3 -> FLt(mc_summary.positive_sharpe_pct, FInt(70))]
        IN  /\ Len(w) <= 3
            /\ \A i \in 1..3 :
                  due[i] <=> \E k \in 1..Len(w) : w[k].about = WarningOrder[i]
            /\ \A k \in 1..Len(w) : \A l \in 1..Len(w) :
                  k < l => \E i \in 1..3 : \E j \in 1..3 :
                      /\ i < j
                      /\ w[k].about = WarningOrder[i]
                      /\ w[l].about = WarningOrder[j]

\* the first and the third warning without the second
C9_Witness ==
    /\ report.status = "report"
    /\ Len(report.warnings) = 2
    /\ report.warnings[1].about = "multi_timeframe"
    /\ report.warnings[2].about = "monte_carlo"

AllEmpty == \A i \in 1..Len(calls) : calls[i].answer = "empty"

\* C7: in run_full_validation with a strategy that selects nothing on every
\* invocation no tester raises, every result is the failed backtest (Sharpe
\* -0.5, total return -0.05, no trades), the walk-forward tester returns as
\* many results as the window formula says, the three positive-Sharpe
\* percentages are 0 and the recommendation is FAIL.
C7_EmptyStrategyFails ==
    AllEmpty =>
        /\ pc # "raised"
        /\ \A k \in 1..Len(mt_results) :
              /\ mt_results[k].sharpe_ratio = -50
              /\ mt_results[k].total_return = -5
              /\ mt_results[k].num_trades = 0
        /\ \A k \in 1..Len(wf_results) :
              /\ wf_results[k].sharpe_ratio = -50
              /\ wf_results[k].total_return = -5
              /\ wf_results[k].num_trades = 0
        /\ \A k \in 1..Len(mc_results) :
              /\ mc_results[k].sharpe = -50
              /\ mc_results[k].return = -5
        /\ "mt" \in returned => Len(mt_results) = Len(mt_cfg.timeframes)
        /\ "wf" \in returned => Len(wf_results) = WindowFormula(wf_cfg)
        /\ "mc" \in returned =>
              /\ mc_summary.num_simulations = mc_cfg.num_simulations
              /\ mc_summary.positive_sharpe_pct = FInt(0)
        /\ pc = "done" =>
              /\ PositivePct(report.multi_timeframe_results) = FInt(0)
              /\ PositivePct(report.walk_forward_results) = FInt(0)
              /\ report.monte_carlo_results.positive_sharpe_pct = FInt(0)
              /\ report.recommendation = "FAIL"
              /\ Len(report.warnings) = 3

C7_Witness ==
    /\ AllEmpty
    /\ pc = "done"
    /\ Len(calls) = Len(RunTimeframes) + 4 + RunSimulations
    /\ report.recommendation = "FAIL"

Survivors(c) ==
    LET all == Columns(c.weights, c.stock_data)
        rows == WindowRows(FrameIndex(all, c.stock_data), c.start_date, c.end_date)
    IN  SelectSeq(all, LAMBDA t : Len(rows) > 0 /\ Covered(c.stock_data, t, rows))

SurvivingWeight(c) ==
    LET alive == Survivors(c)
    IN  SumSeq([k \in 1..Len(alive) |-> WeightOf(c.weights, alive[k])])

EngineReturned ==
    pc # "call" /\ fn_call.fn = "backtest_portfolio"

FailureResult ==
    /\ fn_result.kind = "result"
    /\ fn_result.result.success = FALSE
    /\ DOMAIN fn_result.result = { "success", "message" }

\* C12: when no instrument survives cleaning, or the surviving instruments'
\* weights total zero, backtest_portfolio raises nothing and returns a
\* failure result: success False and no metric.
C12_NoSurvivorFails ==
    (EngineReturned /\ (Survivors(fn_call) = <<>> \/ SurvivingWeight(fn_call) = 0))
        => (pc = "done" /\ FailureResult)

\* the only instrument has rows in the window and no price in any of them
C12_Witness ==
    /\ EngineReturned
    /\ FailureResult
    /\ Len(fn_call.weights) = 1
    /\ fn_call.weights[1].weight > 0
    /\ fn_call.stock_data["A"].kind = "frame"
    /\ \E d \in DOMAIN fn_call.stock_data["A"].close : d >= fn_call.start_date
    /\ \A d \in DOMAIN fn_call.stock_data["A"].close :
          fn_call.stock_data["A"].close[d] = NaN

\* The rows of a call's window that are left after cleaning.
CleanRowCount(c) ==
    LET all == Columns(c.weights, c.stock_data)
        rows == WindowRows(FrameIndex(all, c.stock_data), c.start_date, c.end_date)
    IN  Len(CleanRows(c.stock_data, Survivors(c), rows))

\* C13: when at least one instrument survives cleaning and fewer than two
\* price rows are left, so that no return period exists, backtest_portfolio
\* returns a failure result and RealPortfolioValidator._run_backtest returns
\* the failed backtest; neither raises.
C13_InsufficientDataRecovered ==
    (pc # "call" /\ fn_call.fn \in { "backtest_portfolio", "_run_backtest" }
         /\ Survivors(fn_call) # <<>> /\ CleanRowCount(fn_call) < 2)
        => /\ pc = "done"
           /\ fn_call.fn = "backtest_portfolio" => FailureResult
           /\ fn_call.fn = "_run_backtest" =>
                 fn_result.result = FailedBacktest(WFPeriod(1), fn_call.start_date,
                                                   fn_call.end_date)

Succeeded ==
    /\ EngineReturned
    /\ pc = "done"
    /\ fn_result.result.success

UsedTickers ==
    [k \in 1..Len(fn_result.result.weights_used) |->
        fn_result.result.weights_used[k].ticker]

\* C24: on success weights_used holds exactly the instruments that survived
\* cleaning, each with its original weight divided by the sum of the original
\* weights of the survivors; the weights used sum to 1 and a dropped
\* instrument has none.
C24_WeightsRenormalized ==
    Succeeded =>
        LET used == fn_result.result.weights_used
            total == SurvivingWeight(fn_call)
        IN  /\ UsedTickers = Survivors(fn_call)
            /\ \A k \in 1..Len(used) :
                  used[k].weight =
                      Frac(WeightOf(fn_call.weights, used[k].ticker), total)
            /\ FSum([k \in 1..Len(used) |-> used[k].weight]) = FInt(1)

\* one of two instruments is dropped and the other, of weight 3 in 4, is
\* used with weight 1
C24_Witness ==
    /\ Succeeded
    /\ fn_call.weights = << Holding("A", 1), Holding("B", 3) >>
    /\ fn_result.result.weights_used = << [ticker |-> "B", weight |-> FInt(1)] >>

\* The close prices of instrument i of a call that are not missing and lie
\* within [start_date, end_date].
OwnCloses(c, i) ==
    LET data == c.stock_data[c.weights[i].ticker]
    IN  IF data.kind # "frame" THEN {}
        ELSE { d \in DOMAIN data.close :
                 /\ c.start_date <= d /\ d <= c.end_date
                 /\ data.close[d] # NaN }

\* The rows of the price frame of a call that lie within the window.
RowCount(c) ==
    Len(WindowRows(FrameIndex(Columns(c.weights, c.stock_data), c.stock_data),
                   c.start_date, c.end_date))

\* C25: backtest_portfolio keeps an instrument iff the number of its close
\* prices within [start, end] that are not missing is at least 70% of the
\* number of rows in the window.
C25_KeptIffCovered ==
    Succeeded =>
        \A i \in 1..Len(fn_call.weights) :
            (\E k \in 1..Len(UsedTickers) :
                 UsedTickers[k] = fn_call.weights[i].ticker)
              <=> 10 * Cardinality(OwnCloses(fn_call, i)) >= 7 * RowCount(fn_call)

Permuted(s, f) == [i \in 1..Len(s) |-> s[f[i]]]

\* C14: the robustness score, the recommendation and the warnings of a
\* report are the same for every order of the multi-timeframe results and
\* every order of the Monte Carlo samples the percentage is computed from.
C14_OrderInvariant ==
    pc = "done" =>
        \A f \in Permutations(1..Len(mt_results)) :
        \A g \in Permutations(1..Len(mc_results)) :
            LET summary == Summary(Permuted(mc_results, g))
                out == ValidationReport(Permuted(mt_results, f), wf_results,
                                        summary.result)
            IN  /\ summary.kind = "result"
                /\ out.kind = "result"
                /\ out.result.robustness_score = report.robustness_score
                /\ out.result.recommendation = report.recommendation
                /\ out.result.warnings = report.warnings

\* a report over multi-timeframe results and over samples that differ
C14_Witness ==
    /\ pc = "done"
    /\ \E i \in 1..Len(mt_results) :
          mt_results[i].sharpe_ratio # mt_results[1].sharpe_ratio
    /\ \E i \in 1..Len(mc_results) :
          Gt(mc_results[i].sharpe, 0) /\ ~Gt(mc_results[1].sharpe, 0)

\* C15: every Monte Carlo invocation carries one value per range, and for a
\* range with min <= max the value lies in [min, max]; when both bounds are
\* ints the value is an integer and either endpoint is a possible draw.
C15_DrawsWithinRange ==
    /\ \A k \in 1..Len(calls) :
          calls[k].by = "mc" =>
              /\ Len(calls[k].params) = Len(mc_cfg.ranges)
              /\ \A i \in 1..Len(mc_cfg.ranges) :
                    LET r == mc_cfg.ranges[i]
                        p == calls[k].params[i]
                    IN  r.min <= r.max =>
                            /\ p.name = r.name
                            /\ r.min <= p.value /\ p.value <= r.max
                            /\ r.int => IsInteger(p.value)
    /\ \A i \in 1..Len(mc_cfg.ranges) :
          LET r == mc_cfg.ranges[i]
          IN  (r.int /\ r.min <= r.max) =>
                  (r.min \in RangeValues(r) /\ r.max \in RangeValues(r))

\* Both endpoints of an int range were drawn, and a float range was drawn too.
C15_Witness ==
    \E k, l \in 1..Len(calls) :
        /\ calls[k].by = "mc" /\ calls[l].by = "mc"
        /\ \E i, j \in 1..Len(mc_cfg.ranges) :
              /\ mc_cfg.ranges[i].int /\ mc_cfg.ranges[i].min < mc_cfg.ranges[i].max
              /\ calls[k].params[i].value = mc_cfg.ranges[i].min
              /\ calls[l].params[i].value = mc_cfg.ranges[i].max
              /\ ~mc_cfg.ranges[j].int
              /\ calls[l].params[j].value = mc_cfg.ranges[j].max

\* The backtest runner has returned a BacktestResult.
BacktestReturned ==
    /\ pc = "done"
    /\ fn_call.fn \in { "_run_backtest", "PortfolioValidator._run_backtest" }

\* The failed backtest and the base class's win_rate are literals in
\* hundredths, the measured metrics are fractions.
MeasuredDrawdown(r) ==
    IF fn_call.fn = "_run_backtest" /\ r.num_trades = 0
    THEN Frac(r.max_drawdown, 100) ELSE r.max_drawdown

MeasuredWinRate(r) ==
    IF fn_call.fn = "_run_backtest" /\ r.num_trades # 0
    THEN r.win_rate ELSE Frac(r.win_rate, 100)

\* C16: every BacktestResult a backtest runner returns (the base class's, the
\* real one's on success, the failed backtest) has max_drawdown <= 0 and
\* 0 <= win_rate <= 1, neither of them NaN.
C16_MetricsInRange ==
    BacktestReturned =>
        LET max_drawdown == MeasuredDrawdown(fn_result.result)
            win_rate == MeasuredWinRate(fn_result.result)
        IN  /\ max_drawdown # FNaN /\ FGe(FInt(0), max_drawdown)
            /\ win_rate # FNaN
            /\ FGe(win_rate, FInt(0)) /\ FGe(FInt(1), win_rate)

\* A real backtest that lost from its peak and won on some days but not all.
C16_Witness ==
    /\ BacktestReturned
    /\ fn_call.fn = "_run_backtest"
    /\ fn_result.result.num_trades # 0
    /\ FLt(fn_result.result.max_drawdown, FInt(0))
    /\ FLt(FInt(0), fn_result.result.win_rate)
    /\ FLt(fn_result.result.win_rate, FInt(1))

\* A Sharpe function has returned.
SharpeReturned ==
    /\ pc = "done"
    /\ fn_call.fn \in { "PortfolioValidator._calculate_sharpe",
                        "BacktestEngine._calculate_sharpe" }

\* No two observations differ: an empty series, a single observation, or a
\* constant one.
NoDeviation(returns) ==
    \A i, j \in 1..Len(returns) : returns[i] = returns[j]

\* C17: on a return series that is empty or has zero standard deviation, a
\* single observation included, both Sharpe functions return exactly 0.0,
\* never NaN.
C17_SharpeZeroWithoutDeviation ==
    (SharpeReturned /\ NoDeviation(fn_call.returns))
        => fn_result.result = [kind |-> "zero"]

\* The run fails at one of its four stages: nothing downloaded, nothing
\* passes the screen, fewer than two tickers selected, no optimum found.
StageFailed(env) ==
    \/ env.downloaded = {}
    \/ env.passed = {}
    \/ Len(SelectedTickers(env)) < 2
    \/ ~env.opt_result.success

Allocated ==
    /\ pc = "done"
    /\ fn_call.fn = "calculate_allocation"
    /\ FLt(FInt(0), fn_call.amount)

\* C19: for an amount > 0, weights that are non-negative and sum to at most 1
\* and positive prices, the allocation has total_invested <= amount,
\* cash_remaining >= 0, 0 <= efficiency <= 1 and
\* total_invested + cash_remaining = amount.
C19_AllocationWithinAmount ==
    Allocated =>
        LET r == fn_result.result
        IN  /\ FGe(fn_call.amount, r.total_invested)
            /\ FGe(r.cash_remaining, FInt(0))
            /\ FGe(r.efficiency, FInt(0)) /\ FGe(FInt(1), r.efficiency)
            /\ FAdd(r.total_invested, r.cash_remaining) = fn_call.amount

\* C20: every stock entry of the allocation has a whole number of shares >= 1,
\* and its amount is shares times its reported price to within 0.01.
C20_AmountIsSharesTimesPrice ==
    Allocated =>
        \A i \in 1..Len(fn_result.result.stocks) :
            LET e == fn_result.result.stocks[i]
                expected_amount == FMul(FInt(e.shares), e.price)
            IN  /\ e.shares >= 1
                /\ FGe(Frac(1, 100), FSub(e.amount, expected_amount))
                /\ FGe(Frac(1, 100), FSub(expected_amount, e.amount))

\* GET /api/portfolio has been answered.
Answered == pc = "done" /\ fn_call.fn = "get_portfolio"

\* C21: a request with amount <= 0 is answered with status 400 without
\* calculate_allocation being called, and only an amount > 0 reaches
\* calculate_allocation.
C21_OnlyPositiveAmountsServed ==
    Answered =>
        /\ NotPositive(fn_call.amount) =>
              (fn_result.result.status_code = 400
                  /\ ~fn_result.result.service_called)
        /\ fn_result.result.service_called =>
              (fn_call.amount # FNaN /\ FLt(FInt(0), fn_call.amount))

\* C22: walk_forward_analysis invokes the strategy function once per window,
\* on [train_start, train_end] only and never on the test window, and the
\* value returned is the portfolio that is backtested.
C22_SelectedOncePerWindow ==
    LET c == CallsBy("wf")
    IN  /\ Len(c) = Len(wf_results) + (IF pc = "raised" THEN 1 ELSE 0)
        /\ \A k \in 1..Len(c) :
              /\ c[k].start_date = WFFirstStart + (k - 1) * wf_cfg.step
              /\ c[k].end_date = c[k].start_date + wf_cfg.train
        /\ \A k \in 1..Len(wf_results) :
              /\ c[k].answer = "empty" => wf_results[k].stocks_selected = <<>>
              /\ (c[k].answer = "portfolio" /\ validator = "base")
                    => wf_results[k].stocks_selected # <<>>


\* C26: multi_timeframe_backtest invokes the strategy function once per
\* timeframe label, on [now - lookback_days, now] with one now for all
\* labels; what it returns has one result per label, under that label, whose
\* start_date and end_date are that window.
C26_OncePerLabel ==
    LET c == CallsBy("mt")
    IN  /\ Len(c) = Len(mt_results) + (IF pc = "raised" /\ Len(c) > 0 THEN 1 ELSE 0)
        /\ Len(c) <= Len(mt_frames)
        /\ \A k \in 1..Len(c) :
              /\ c[k].end_date = now
              /\ c[k].start_date = now - mt_frames[k].days
              /\ c[k].params = <<>>
        /\ \A k \in 1..Len(mt_results) :
              /\ mt_results[k].period = mt_frames[k].name
              /\ mt_results[k].start_date = c[k].start_date
              /\ mt_results[k].end_date = c[k].end_date
        /\ "mt" \in returned =>
              /\ Len(mt_results) = Len(mt_frames)
              /\ \A k \in 1..Len(mt_frames) : \A l \in 1..Len(mt_frames) :
                    mt_frames[k].name = mt_frames[l].name => k = l

\* two labels with different lookbacks have been tested and returned
C26_Witness ==
    /\ "mt" \in returned
    /\ Len(mt_results) = 2
    /\ mt_results[1].start_date # mt_results[2].start_date
    /\ mt_results[1].start_date # mt_results[1].end_date


\* C27: the k-th result of walk_forward_analysis is labelled WF_Window_k, the
\* first being WF_Window_1, whether or not its portfolio is empty; the next
\* window gets the number after the last one emitted, and with step_days >= 1
\* the results are in chronological order.
C27_WindowsNumbered ==
    /\ \A k \in 1..Len(wf_results) :
          /\ wf_results[k].period = <<"WF_Window_", k>>
          /\ (k > 1 /\ wf_cfg.step >= 1) =>
                /\ wf_results[k - 1].start_date < wf_results[k].start_date
                /\ wf_results[k - 1].end_date < wf_results[k].end_date
    /\ pc \in { "wf_loop", "raised" } => window_num = Len(wf_results) + 1

\* a window with an empty portfolio is followed by WF_Window_2
C27_Witness ==
    /\ Len(wf_results) >= 2
    /\ wf_results[1].stocks_selected = <<>>
    /\ wf_results[2].period = <<"WF_Window_", 2>>
    /\ wf_results[2].stocks_selected # <<>>


WFOver == pc \in { "done", "raised" }

\* C29: for every step_days >= 1 the walk-forward loop terminates:
\* train_start grows with every pass, and the tester returns after
\* evaluating the break condition once per emitted window and once more.
C29_LoopTerminates ==
    /\ (pc = "wf_loop" /\ wf_cfg.step >= 1) ~> WFOver
    /\ [][(pc = "wf_loop" /\ wf_cfg.step >= 1 /\ Len(wf_results') > Len(wf_results))
             => wf_train_start' > wf_train_start]_vars
    /\ []("wf" \in returned => wf_checks = Len(wf_results) + 1)

\* three windows one day apart were emitted before the break
C29_Witness ==
    /\ "wf" \in returned
    /\ wf_cfg.step = 1
    /\ Len(wf_results) = 3
    /\ wf_checks = 4


\* C28: the parameters an invocation of the strategy runs with depend only
\* on the params argument of that invocation and on the defaults the
\* strategy was built with: what an earlier invocation passed has no effect
\* on a later one that does not pass it.
C28_ParamsNotShared ==
    \A i \in 1..Len(Effective) :
        LET built == IF fn_call.fn = "CompleteStrategy"
                     THEN CompleteStrategy_init(fn_call.init)
                     ELSE DefaultParams
        IN  Effective[i] = OverrideParams(built, fn_call.runs[i])


\* C30: for any candidates and any target_count select_low_correlation_stocks
\* returns a list without duplicates of at most target_count tickers that
\* starts with the candidate of the highest average return, and every later
\* ticker has an absolute correlation strictly below max_correlation with
\* every ticker selected before it.
C30_GreedySelection ==
    (pc = "done" /\ fn_call.fn = "select_low_correlation_stocks") =>
        LET selected == fn_result.result
            with_data == { t \in fn_call.stock_data :
                             \E i \in 1..Len(fn_call.tickers) : fn_call.tickers[i] = t }
        IN  /\ \A j \in 1..Len(selected) : \A k \in 1..Len(selected) :
                  selected[j] = selected[k] => j = k
            /\ Len(selected) <= fn_call.target_count
            /\ Len(selected) > 0 =>
                  selected[1] = Among(fn_call.by_return, with_data)[1]
            /\ \A j \in 2..Len(selected) : \A k \in 1..(j - 1) :
                  fn_call.corr[{selected[j], selected[k]}] < fn_call.max_correlation

====
